---- MODULE Spec2Model ----
(***************************************************************************)
(* Model of the tumblr-upload-agent event pipeline and admission control:  *)
(*   app/agents/rate_limiter.py   RateLimitingAgent                        *)
(*   app/agents/orchestrator.py   UploadOrchestratorAgent                  *)
(*   app/agents/file_manager.py   FileManagementAgent                      *)
(*   app/agents/file_watcher.py   FileWatcherAgent                         *)
(* Time is wall-clock seconds; datetime.now() and time.time() read the     *)
(* same clock `now` (local time zone at offset 0, no DST change).          *)
(***************************************************************************)
EXTENDS Integers, Sequences, FiniteSets, TLC

(***************************************************************************)
(* Program constants                                                       *)
(***************************************************************************)
BurstWindow == 60
SecondsPerHour == 3600
SecondsPerDay == 86400
HoursPerDay == 24

(***************************************************************************)
(* Bounds of the model                                                     *)
(***************************************************************************)
MaxUploads == 3
MaxSize == 2
\* how often the orchestrator is started
MaxStarts == 2

\* Configurations of RateLimitConfig explored (upload_delay, per-hour and
\* per-day maxima, burst_limit).
UploadDelays == {0, 5}
HourMaxima == {2}
DayMaxima == {3}
BurstLimits == {1, 2}
RLConfigs ==
    [upload_delay : UploadDelays, max_uploads_per_hour : HourMaxima,
     max_uploads_per_day : DayMaxima, burst_limit : BurstLimits]

\* Configurations under which the upload workflow is explored: BURST_LIMIT=0
\* is accepted by RateLimitConfig and makes should_allow_upload raise.
WorkflowDelays == {5}
WorkflowBurstLimits == {0, 1}
WorkflowConfigs ==
    [upload_delay : WorkflowDelays, max_uploads_per_hour : HourMaxima,
     max_uploads_per_day : DayMaxima, burst_limit : WorkflowBurstLimits]

\* The clock at construction: day 2, 10:58:00.
StartTime == 2 * SecondsPerDay + 10 * SecondsPerHour + 58 * 60

\* Instants at which the environment lets something happen, as offsets from
\* StartTime: inside the delay (3), at the edge of the burst window (60),
\* at the 11:00 hour boundary (120), at midnight, and one day later inside
\* the same hour of the day.
Offsets == {3, 60, 120, 13 * SecondsPerHour + 120, SecondsPerDay}
TimePoints == {StartTime + o : o \in Offsets}
LastTime == StartTime + SecondsPerDay + SecondsPerHour

VARIABLES
    now,               \* the wall clock, in seconds
    config,            \* RateLimitConfig
    last_upload_time,  \* RateLimitingAgent.last_upload_time
    upload_times,      \* RateLimitingAgent.upload_times, deque(maxlen=burst_limit)
    hourly_uploads,    \* RateLimitingAgent.hourly_uploads
    current_hour,      \* RateLimitingAgent.current_hour
    daily_uploads,     \* RateLimitingAgent.daily_uploads
    last_reset_date,   \* RateLimitingAgent.last_reset_date
    recorded,          \* history: the time of every record_upload call
    hourMarker,        \* history: the wall-clock hour (since the epoch) in which current_hour was written
    checkedDate,       \* history: the date of the latest should_allow_upload (or of construction)
    last,              \* history: the rate-limiter call made at this instant, if any
    slot               \* history: progress of a denied caller through wait_for_next_slot

rlVars == <<config, last_upload_time, upload_times, hourly_uploads, current_hour,
            daily_uploads, last_reset_date>>
histVars == <<recorded, hourMarker, checkedDate, last, slot>>

VARIABLES
    settings,          \* the feature flags the orchestrator reads from SystemConfig
    files,             \* base_upload_folder/<category>/: file name -> size in bytes
    failed,            \* failed_upload_base/<category>/: file name -> the path the file was moved from
    seen,              \* every name that has existed in the watched directory
    noticed,           \* the names in the PollingObserver's latest snapshot
    queue,             \* FileWatcherAgent.file_event_queue
    is_running,        \* BaseAgent.is_running of the orchestrator and its file watcher
    pc,                \* where the consumer task (_main_workflow) stands
    wf,                \* the locals of _process_upload_workflow and its file_event
    pass               \* history: what the current (or latest) pass has done

wfVars == <<settings, files, failed, seen, noticed, queue, is_running, pc, wf, pass>>

VARIABLE
    watcher            \* a watchdog thread inside FileEventHandler.on_created, and what it has handed to the event loop

VARIABLE
    remote             \* the call of _publish_post_impl under way: its client, its file, what requests.post brings back, and the UploadResult

VARIABLE
    consumers          \* the _main_workflow tasks created by _start_work so far, each with the place it is at

VARIABLE
    queue_manager      \* the QueueManagerAgent: its two settings, the files of the upload and the staging categories, and what its last check did

vars == <<now, rlVars, histVars, wfVars, watcher, remote, consumers, queue_manager>>

(***************************************************************************)
(* Clock readings                                                          *)
(***************************************************************************)
\* datetime.now().hour
HourOf(t) == (t \div SecondsPerHour) % HoursPerDay
\* datetime.now().date(), as a day number
DateOf(t) == t \div SecondsPerDay
\* the index of the wall-clock hour since the epoch
AbsHourOf(t) == t \div SecondsPerHour
\* (now.replace(minute=0, second=0) + timedelta(hours=1) - now).total_seconds()
SecondsToNextHour(t) == SecondsPerHour - (t % SecondsPerHour)
\* (now.replace(hour=0, minute=0, second=0) + timedelta(days=1) - now).total_seconds()
SecondsToNextDay(t) == SecondsPerDay - (t % SecondsPerDay)

Max(S) == CHOOSE x \in S : \A y \in S : y <= x

(***************************************************************************)
(* RateLimitingAgent                                                       *)
(***************************************************************************)
\* a deque without maxlen: nothing is ever dropped
DequeAppendUnbounded(q, t, n) == Append(q, t)
\* deque(maxlen=n).append(t): the oldest entry is dropped when the deque is full
DequeAppend(q, t, n) ==
    IF n = 0 THEN <<>>
    ELSE IF Len(q) >= n THEN Tail(q) \o <<t>>
    ELSE Append(q, t)

\* an hourly counter that is lowered by the hourly maximum at an hour change
HourlyAfterDecay(t) ==
    IF HourOf(t) # current_hour THEN hourly_uploads - config.max_uploads_per_hour
    ELSE hourly_uploads
\* lines 66-69: the hourly counter after the lazy reset
HourlyAfterReset(t) == IF HourOf(t) # current_hour THEN 0 ELSE hourly_uploads

\* lines 71-77
DailyLimitReached == daily_uploads >= config.max_uploads_per_day
\* lines 79-85
HourlyLimitReached(t) == HourlyAfterReset(t) >= config.max_uploads_per_hour
\* lines 87-95
DelayActive(t) == t - last_upload_time < config.upload_delay
\* line 98 with the comparison off by one (len > burst_limit)
BurstWindowFullOffByOne == Len(upload_times) > config.burst_limit
\* line 98
BurstWindowFull == Len(upload_times) >= config.burst_limit
\* a full window that denies whatever the age of its oldest entry
BurstActiveForever(t) == BurstWindowFull
\* lines 99-105 (upload_times[0] of an empty deque raises IndexError)
BurstActive(t) == BurstWindowFull /\ t - upload_times[1] < BurstWindow

\* _should_allow_upload_impl: "True", "False", or "raise" (IndexError)
ShouldAllowResult(t) ==
    IF DailyLimitReached THEN "False"
    ELSE IF HourlyLimitReached(t) THEN "False"
    ELSE IF DelayActive(t) THEN "False"
    ELSE IF BurstWindowFull /\ Len(upload_times) = 0 THEN "raise"
    ELSE IF BurstActive(t) THEN "False"
    ELSE "True"

\* _calculate_wait_time: the set wait_times and its maximum
WaitTimes(t) ==
    (IF t - last_upload_time < config.upload_delay
        THEN {config.upload_delay - (t - last_upload_time)} ELSE {})
    \cup (IF BurstWindowFull /\ Len(upload_times) > 0
             /\ BurstWindow - (t - upload_times[1]) > 0
          THEN {BurstWindow - (t - upload_times[1])} ELSE {})
    \cup (IF hourly_uploads >= config.max_uploads_per_hour
          THEN {SecondsToNextHour(t)} ELSE {})
    \cup (IF daily_uploads >= config.max_uploads_per_day
          THEN {SecondsToNextDay(t)} ELSE {})

\* the shortest of the remaining durations instead of the longest
CalculateWaitTimeShortest(t) ==
    IF WaitTimes(t) = {} THEN 0
    ELSE CHOOSE x \in WaitTimes(t) : \A y \in WaitTimes(t) : x <= y
\* line 186: max(wait_times) if wait_times else 0
CalculateWaitTime(t) == IF WaitTimes(t) = {} THEN 0 ELSE Max(WaitTimes(t))

\* the record kept in `last` of a call op that returned ret
Call(op, ret, wait) ==
    [op |-> op, ret |-> ret, wait |-> wait,
     hourCrossed |-> AbsHourOf(now) # hourMarker,
     dayCrossed |-> DateOf(now) # checkedDate,
     hourlyBefore |-> hourly_uploads,
     dailyBefore |-> daily_uploads]

NoCall ==
    [op |-> "none", ret |-> "none", wait |-> 0, hourCrossed |-> FALSE, dayCrossed |-> FALSE,
     hourlyBefore |-> 0, dailyBefore |-> 0]

\* __init__ (lines 31-37) and the field defaults (lines 19-29)
RLInit(configs) ==
    /\ config \in configs
    /\ last_upload_time = 0
    /\ upload_times = <<>>
    /\ hourly_uploads = 0
    /\ current_hour = HourOf(now)
    /\ daily_uploads = 0
    /\ last_reset_date = DateOf(now)
    /\ recorded = <<>>
    /\ hourMarker = AbsHourOf(now)
    /\ checkedDate = DateOf(now)
    /\ last = NoCall
    /\ slot = "idle"

\* the effect of _should_allow_upload_impl on the rate limiter and the history
ShouldAllowEffect ==
    /\ hourly_uploads' = HourlyAfterReset(now)
    /\ current_hour' = HourOf(now)
    /\ hourMarker' = IF HourOf(now) # current_hour THEN AbsHourOf(now) ELSE hourMarker
    /\ checkedDate' = DateOf(now)
    /\ last' = Call("should_allow_upload", ShouldAllowResult(now), 0)
    /\ UNCHANGED <<config, last_upload_time, upload_times, daily_uploads,
                   last_reset_date, recorded>>

\* the effect of _record_upload_impl
RecordUploadEffect ==
    /\ last_upload_time' = now
    /\ hourly_uploads' = hourly_uploads + 1
    /\ daily_uploads' = daily_uploads + 1
    /\ upload_times' = DequeAppend(upload_times, now, config.burst_limit)
    /\ recorded' = Append(recorded, now)
    /\ last' = Call("record_upload", "none", 0)
    /\ UNCHANGED <<config, current_hour, last_reset_date, hourMarker, checkedDate>>

\* the effect of _wait_for_next_slot_impl: compute the wait, then sleep that long
WaitForNextSlotEffect ==
    /\ now' = now + CalculateWaitTime(now)
    /\ last' = Call("wait_for_next_slot", "none", CalculateWaitTime(now))
    /\ UNCHANGED <<rlVars, recorded, hourMarker, checkedDate>>

\* should_allow_upload(), called at the current time
ShouldAllowUpload ==
    /\ ShouldAllowEffect
    /\ slot' = IF slot = "waited" THEN "rechecked"
               ELSE IF ShouldAllowResult(now) = "False" THEN "denied"
               ELSE "idle"
    /\ UNCHANGED <<now, wfVars>>
    /\ UNCHANGED <<watcher, remote, consumers, queue_manager>>

\* record_upload(), called at the current time
RecordUpload ==
    /\ Len(recorded) < MaxUploads
    /\ RecordUploadEffect
    /\ slot' = "idle"
    /\ UNCHANGED <<now, wfVars>>
    /\ UNCHANGED <<watcher, remote, consumers, queue_manager>>

\* wait_for_next_slot(), called at the current time
WaitForNextSlot ==
    /\ now + CalculateWaitTime(now) <= LastTime
    /\ WaitForNextSlotEffect
    /\ slot' = IF slot = "denied" THEN "waited" ELSE "idle"
    /\ UNCHANGED wfVars
    /\ UNCHANGED <<watcher, remote, consumers, queue_manager>>

\* get_estimated_wait_time(): _calculate_wait_time without the sleep
GetEstimatedWaitTime ==
    /\ last' = Call("get_estimated_wait_time", "none", CalculateWaitTime(now))
    /\ slot' = "idle"
    /\ UNCHANGED <<now, rlVars, recorded, hourMarker, checkedDate, wfVars>>
    /\ UNCHANGED <<watcher, remote, consumers, queue_manager>>

\* _cleanup_old_data, run by _periodic_reset
RECURSIVE DropOld(_, _)
DropOld(q, t) ==
    IF q # <<>> /\ t - q[1] > BurstWindow THEN DropOld(Tail(q), t) ELSE q

CleanupOldData ==
    /\ upload_times' = DropOld(upload_times, now)
    /\ last' = Call("cleanup_old_data", "none", 0)
    /\ slot' = "idle"
    /\ UNCHANGED <<now, config, last_upload_time, hourly_uploads, current_hour,
                   daily_uploads, last_reset_date, recorded, hourMarker, checkedDate,
                   wfVars>>
    /\ UNCHANGED <<watcher, remote, consumers, queue_manager>>

\* reset_counters(), lines 235-242
ResetCounters ==
    /\ hourly_uploads' = 0
    /\ daily_uploads' = 0
    /\ upload_times' = <<>>
    /\ last_upload_time' = 0
    /\ last' = Call("reset_counters", "none", 0)
    /\ slot' = "idle"
    /\ UNCHANGED <<now, config, current_hour, last_reset_date, recorded, hourMarker,
                   checkedDate, wfVars>>
    /\ UNCHANGED <<watcher, remote, consumers, queue_manager>>

\* time passes
Tick ==
    /\ \E t \in TimePoints : t > now /\ now' = t
    /\ last' = NoCall
    /\ slot' = "idle"
    /\ UNCHANGED <<rlVars, recorded, hourMarker, checkedDate, wfVars>>
    /\ UNCHANGED <<watcher, remote, consumers, queue_manager>>

(***************************************************************************)
(* The watched directory, the failed-uploads tree and file names           *)
(***************************************************************************)
\* a path inside one category directory: Path.stem and Path.suffix
FileName(stem, ext) == [stem |-> stem, ext |-> ext]
\* None, for an Optional[Path]
NoPath == FileName("", "")

\* FileWatcherConfig.file_extensions
FileExtensions == {".jpg", ".bmp"}
\* ImageConversionAgent.SUPPORTED_FORMATS
SupportedFormats == {".jpg", ".jpeg", ".png", ".gif", ".webp"}
\* ImageConversionAgent.CONVERT_TO_JPG
ConvertToJpg == {".avif", ".bmp", ".tiff", ".tif"}

\* the files a user drops into the category directory
UserFiles == {FileName("a", ".bmp"), FileName("a", ".jpg")}

\* file_path.exists()
Exists(path) == path \in DOMAIN files
\* the directory with path removed (unlink, or the source side of shutil.move)
Without(dir, path) == [n \in DOMAIN dir \ {path} |-> dir[n]]
\* the directory with an entry added
With(dir, path, v) == [n \in DOMAIN dir \cup {path} |-> IF n = path THEN v ELSE dir[n]]

\* _convert_to_jpg, lines 82-89: with_suffix('.jpg'), then <stem>_converted_<counter>.jpg
ConvertCandidate(path, counter) ==
    IF counter = 0 THEN FileName(path.stem, ".jpg")
    ELSE FileName(path.stem \o "_converted_" \o ToString(counter), ".jpg")

RECURSIVE ConvertOutputFrom(_, _)
ConvertOutputFrom(path, counter) ==
    IF Exists(ConvertCandidate(path, counter))
    THEN ConvertOutputFrom(path, counter + 1)
    ELSE ConvertCandidate(path, counter)

ConvertOutputPath(path) == ConvertOutputFrom(path, 0)

\* _convert_if_needed_impl: does the file get converted
NeedsConversion(path) ==
    /\ settings.enable_conversion
    /\ path.ext \notin SupportedFormats
    /\ path.ext \in ConvertToJpg

\* _move_to_failed_impl, lines 73-79: file_path.name, then <stem>_<counter><suffix>
FailedCandidate(path, counter) ==
    IF counter = 0 THEN path
    ELSE FileName(path.stem \o "_" \o ToString(counter), path.ext)

RECURSIVE FailedDestinationFrom(_, _)
FailedDestinationFrom(path, counter) ==
    IF FailedCandidate(path, counter) \in DOMAIN failed
    THEN FailedDestinationFrom(path, counter + 1)
    ELSE FailedCandidate(path, counter)

\* a destination that is always the original name
FailedDestinationSameName(path) == path
FailedDestination(path) == FailedDestinationFrom(path, 0)

\* _move_to_failed_impl: the watched directory and the failed tree afterwards,
\* and the value returned
MoveToFailed(path) ==
    IF Exists(path)
    THEN [files |-> Without(files, path),
          failed |-> With(failed, FailedDestination(path), path),
          ret |-> TRUE]
    ELSE [files |-> files, failed |-> failed, ret |-> FALSE]

\* _cleanup_successful_impl: the watched directory afterwards, and the value returned
CleanupSuccessful(path) ==
    IF Exists(path)
    THEN [files |-> Without(files, path), ret |-> TRUE]
    ELSE [files |-> files, ret |-> FALSE]

\* a FileEvent: file_path and file_size (one category is modelled)
FileEvent(path, size) == [file_path |-> path, file_size |-> size]

\* the locals of _process_upload_workflow when no pass is running
NoWorkflow ==
    [file_path |-> NoPath, file_size |-> 0, original_file_path |-> NoPath,
     converted_file_path |-> NoPath, current_size |-> 0, caption |-> "none",
     success |-> FALSE, error_message |-> "none", error_type |-> "none"]

\* history of one pass: the file of its event, the calls it made to the
\* publisher and to record_upload, the lifecycle events it emitted, the step
\* that raised, the path handed to move_to_failed, how it ended, and how the
\* pass before it ended
\* it also keeps the steps taken, in order, whether the publisher got as far
\* as the network call, how often the validator read the size again, and the
\* rate limiter's counters when the pass began
NoPass ==
    [detected |-> NoPath, publishCalls |-> 0, recordCalls |-> 0,
     events |-> <<>>, raised |-> "none", moved |-> NoPath, outcome |-> "none",
     previous |-> "none", steps |-> <<>>, network |-> FALSE, reads |-> 0,
     before |-> [daily_uploads |-> 0, last_upload_time |-> 0, upload_times |-> <<>>]]

\* the counters, burst window and last_upload_time of the rate limiter
LimiterCounters ==
    [daily_uploads |-> daily_uploads, last_upload_time |-> last_upload_time,
     upload_times |-> upload_times]

\* the results TumblrAPI.create_photo_post can lead to (lines 181-274)
PublishFailures ==
    {[error_message |-> "Forbidden", error_type |-> "permission_error"],
     [error_message |-> "Network error", error_type |-> "network_error"]}

\* no on_created call in progress
NoCallback == [stage |-> "none", src_path |-> NoPath, existed |-> FALSE]

\* the watcher thread outside on_created with nothing handed to the loop; the
\* record also keeps the events scheduled and the events yielded, each in
\* order, the calls of on_created that have returned, how many of them
\* returned since the consumer began the pass it is in, and the state of
\* FileWatcherAgent.event_loop, which _start_work has set
NoWatcher ==
    [callback |-> NoCallback, pending |-> <<>>, scheduled |-> <<>>,
     yielded |-> <<>>, delivered |-> {}, duringPass |-> 0,
     event_loop |-> "running"]

(***************************************************************************)
(* The producers: watcher threads, writers and the startup scan            *)
(***************************************************************************)
\* a user drops a new file into the watched directory, with its first bytes
FileArrives ==
    /\ \E path \in UserFiles \ seen :
          /\ files' = With(files, path, 1)
          /\ seen' = seen \cup {path}
    /\ UNCHANGED <<now, rlVars, histVars, settings, failed, noticed, queue,
                   is_running, pc, wf, pass>>
    /\ UNCHANGED <<watcher, remote, consumers, queue_manager>>

\* the path has been detected and its pass has not finished validating it
\* (the only span in which the code reads a file's size), or has accepted it
\* this instant
AwaitingValidation(path) ==
    \/ \E i \in DOMAIN queue : queue[i].file_path = path
    \/ pc \in {"validate", "settle", "settle_again", "convert"} /\ wf.file_path = path

\* the writer of a file is still appending to it
FileGrows ==
    /\ \E path \in DOMAIN files \cap UserFiles :
          /\ AwaitingValidation(path)
          /\ files[path] < MaxSize
          /\ files' = [files EXCEPT ![path] = @ + 1]
    /\ UNCHANGED <<now, rlVars, histVars, settings, failed, seen, noticed, queue,
                   is_running, pc, wf, pass>>
    /\ UNCHANGED <<watcher, remote, consumers, queue_manager>>

\* FileEventHandler.on_created with _queue_file_event: the observer finds a
\* file that its snapshot did not hold and the event is put on the queue
OnCreated ==
    /\ is_running
    /\ \E path \in DOMAIN files \ noticed :
          /\ noticed' = noticed \cup {path}
          /\ queue' = IF path.ext \in FileExtensions
                      THEN Append(queue, FileEvent(path, files[path]))
                      ELSE queue
    /\ UNCHANGED <<now, rlVars, histVars, settings, files, failed, seen,
                   is_running, pc, wf, pass>>
    /\ UNCHANGED <<watcher, remote, consumers, queue_manager>>

\* str.lower() on the suffixes that occur in the watched directory
Lower(ext) ==
    CASE ext = ".JPG" -> ".jpg"
      [] ext = ".TXT" -> ".txt"
      [] OTHER -> ext

\* the orders in which iterdir() can list the files of the directory
ScanOrders ==
    {order \in [1..Cardinality(DOMAIN files) -> DOMAIN files] :
        \A i, j \in DOMAIN order : i # j => order[i] # order[j]}

RECURSIVE ScanEvents(_)
ScanEvents(order) ==
    IF order = <<>> THEN <<>>
    ELSE (IF Lower(Head(order).ext) \in FileExtensions
          THEN <<FileEvent(Head(order), files[Head(order)])>> ELSE <<>>)
         \o ScanEvents(Tail(order))

\* _main_workflow, lines 153-157: scan_existing_files
ScanExistingFiles ==
    /\ pc = "scan"
    /\ \E order \in ScanOrders : queue' = queue \o ScanEvents(order)
    /\ pc' = "loop"
    /\ UNCHANGED <<now, rlVars, histVars, settings, files, failed, seen, noticed,
                   is_running, wf, pass>>
    /\ UNCHANGED <<watcher, remote, consumers, queue_manager>>

\* BaseAgent.stop of the orchestrator, with _stop_agents stopping the watcher
Stop ==
    /\ is_running
    /\ is_running' = FALSE
    /\ UNCHANGED <<now, rlVars, histVars, settings, files, failed, seen, noticed,
                   queue, pc, wf, pass>>
    /\ UNCHANGED <<watcher, remote, consumers, queue_manager>>

(***************************************************************************)
(* The consumer: _main_workflow over get_file_events                       *)
(***************************************************************************)
\* the consumer task ending when a pass has raised
AfterPassEndOnRaise(outcome) == IF outcome = "raised" THEN "done" ELSE "loop"
\* the consumer task ending when a publish has failed
AfterPassEndOnFailure(outcome) == IF outcome = "failure" THEN "done" ELSE "loop"
\* where the consumer goes when a pass has ended (lines 162-183: the body of
\* the async for, inside try/except, returns to the generator)
AfterPass(outcome) == "loop"

\* get_file_events, line 176: while self.is_running
LoopTop ==
    /\ pc = "loop"
    /\ pc' = IF is_running THEN "get" ELSE "done"
    /\ UNCHANGED <<now, rlVars, histVars, settings, files, failed, seen, noticed,
                   queue, is_running, wf, pass>>
    /\ UNCHANGED <<watcher, remote, consumers, queue_manager>>

\* a workflow task spawned per event, so that an event is taken while the
\* pass before it is suspended
ConsumerIdleOrSuspended == pc \in {"get", "settle", "wait", "publish"}
\* _main_workflow, lines 160-162: the one consumer task is back in the
\* generator, at the queue, only when the body of the async for has returned
ConsumerIdle == pc = "get"

\* get_file_events, lines 182-186, and _process_upload_workflow, lines 196-197:
\* an event is dequeued and yielded, and its pass starts
GetEventCore ==
    /\ ConsumerIdle
    /\ queue # <<>>
    /\ queue' = Tail(queue)
    /\ wf' = [NoWorkflow EXCEPT !.file_path = Head(queue).file_path,
                                !.file_size = Head(queue).file_size,
                                !.original_file_path = Head(queue).file_path]
    /\ pass' = [NoPass EXCEPT !.detected = Head(queue).file_path,
                              !.outcome = "running",
                              !.previous = pass.outcome,
                              !.before = LimiterCounters]
    /\ pc' = "validate"
    /\ UNCHANGED <<now, rlVars, histVars, settings, files, failed, seen, noticed,
                   is_running>>

GetEvent ==
    /\ GetEventCore
    /\ UNCHANGED <<watcher, remote, consumers, queue_manager>>

\* get_file_events, lines 187-188: asyncio.TimeoutError, continue
GetTimeout ==
    /\ pc = "get"
    /\ queue = <<>>
    /\ pc' = "loop"
    /\ UNCHANGED <<now, rlVars, histVars, settings, files, failed, seen, noticed,
                   queue, is_running, wf, pass>>
    /\ UNCHANGED <<watcher, remote, consumers, queue_manager>>

\* a rejection handed to the except clause of line 261
RejectedAsError ==
    /\ pass' = [pass EXCEPT !.outcome = "rejected"]
    /\ pc' = "except"
    /\ UNCHANGED wf
\* the pass ends without a terminal file action (line 203)
Rejected ==
    /\ pass' = [pass EXCEPT !.outcome = "rejected"]
    /\ pc' = AfterPass("rejected")
    /\ UNCHANGED wf

\* _validate_file_ready, lines 267-273
ValidateExists ==
    /\ pc = "validate"
    /\ IF Exists(wf.file_path)
       THEN pc' = "settle" /\ UNCHANGED <<wf, pass>>
       ELSE Rejected
    /\ UNCHANGED <<now, rlVars, histVars, settings, files, failed, seen, noticed,
                   queue, is_running>>
    /\ UNCHANGED <<watcher, remote, consumers, queue_manager>>

\* _validate_file_ready, lines 276-284 and 296-302: the first size check
ValidateFirstRead ==
    /\ pc = "settle"
    /\ IF ~Exists(wf.file_path)
       THEN Rejected
       ELSE IF files[wf.file_path] # wf.file_size
       THEN /\ wf' = [wf EXCEPT !.current_size = files[wf.file_path]]
            /\ pc' = "settle_again"
            /\ pass' = [pass EXCEPT !.reads = 1]
       ELSE /\ pc' = "convert"
            /\ pass' = [pass EXCEPT !.steps = Append(@, "validated"), !.reads = 1]
            /\ UNCHANGED wf
    /\ UNCHANGED <<now, rlVars, histVars, settings, files, failed, seen, noticed,
                   queue, is_running>>
    /\ UNCHANGED <<watcher, remote, consumers, queue_manager>>

\* _validate_file_ready, lines 286-302: the second size check
ValidateSecondRead ==
    /\ pc = "settle_again"
    /\ IF ~Exists(wf.file_path)
       THEN Rejected
       ELSE IF files[wf.file_path] # wf.current_size
       THEN Rejected
       ELSE /\ wf' = [wf EXCEPT !.file_size = files[wf.file_path]]
            /\ pc' = "convert"
            /\ pass' = [pass EXCEPT !.steps = Append(@, "validated"), !.reads = 2]
    /\ UNCHANGED <<now, rlVars, histVars, settings, files, failed, seen, noticed,
                   queue, is_running>>
    /\ UNCHANGED <<watcher, remote, consumers, queue_manager>>

\* _process_upload_workflow, lines 206-214, with convert_if_needed returning
ConvertIfNeeded ==
    /\ pc = "convert"
    /\ IF NeedsConversion(wf.original_file_path) /\ Exists(wf.original_file_path)
       THEN /\ files' = With(files, ConvertOutputPath(wf.original_file_path), 1)
            /\ seen' = seen \cup {ConvertOutputPath(wf.original_file_path)}
            /\ wf' = [wf EXCEPT
                        !.converted_file_path = ConvertOutputPath(wf.original_file_path),
                        !.file_path = ConvertOutputPath(wf.original_file_path)]
            /\ pass' = [pass EXCEPT !.steps = Append(@, "converted")]
       ELSE UNCHANGED <<files, seen, wf, pass>>
    /\ pc' = "admit"
    /\ UNCHANGED <<now, rlVars, histVars, settings, failed, noticed, queue,
                   is_running>>
    /\ UNCHANGED <<watcher, remote, consumers, queue_manager>>

\* _convert_to_jpg, lines 111-116: the conversion fails and the exception is
\* raised again; _convert_image_sync has removed the partial output
ConvertRaises ==
    /\ pc = "convert"
    /\ NeedsConversion(wf.original_file_path)
    /\ pc' = "except"
    /\ pass' = [pass EXCEPT !.raised = "convert"]
    /\ UNCHANGED <<now, rlVars, histVars, settings, files, failed, seen, noticed,
                   queue, is_running, wf>>
    /\ UNCHANGED <<watcher, remote, consumers, queue_manager>>

\* _process_upload_workflow, lines 216-224: should_allow_upload
Admit ==
    /\ pc = "admit"
    /\ ShouldAllowEffect
    /\ slot' = IF ShouldAllowResult(now) = "False" THEN "denied" ELSE "idle"
    /\ pc' = CASE ShouldAllowResult(now) = "True" -> "analyze"
               [] ShouldAllowResult(now) = "False" -> "wait"
               [] OTHER -> "except"
    /\ pass' = CASE ShouldAllowResult(now) = "True" ->
                      [pass EXCEPT !.steps = Append(@, "admitted")]
                 [] ShouldAllowResult(now) = "False" ->
                      [pass EXCEPT !.steps = Append(@, "denied")]
                 [] OTHER -> [pass EXCEPT !.raised = "admit"]
    /\ UNCHANGED <<now, settings, files, failed, seen, noticed, queue, is_running, wf>>
    /\ UNCHANGED <<watcher, remote, consumers, queue_manager>>

\* the admission check made again after the wait
AfterWaitRecheck == "admit"
\* lines 222-227: after wait_for_next_slot the pass goes on to step 3
AfterWait == "analyze"

\* _process_upload_workflow, line 222: wait_for_next_slot, then on to step 3
WaitSlot ==
    /\ pc = "wait"
    /\ WaitForNextSlotEffect
    /\ slot' = "waited"
    /\ pc' = AfterWait
    /\ pass' = [pass EXCEPT !.steps = Append(@, "waited")]
    /\ UNCHANGED <<settings, files, failed, seen, noticed, queue, is_running, wf>>
    /\ UNCHANGED <<watcher, remote, consumers, queue_manager>>

\* an analysis without a description ends the pass in the except clause
AnalyzeErrorFailsPass ==
    /\ pc = "analyze"
    /\ IF settings.analysis_enabled
       THEN /\ \E caption \in {"described", "none"} :
                  /\ wf' = [wf EXCEPT !.caption = caption]
                  /\ pc' = IF caption = "none" THEN "except" ELSE "publish"
            /\ pass' = [pass EXCEPT !.steps = Append(@, "analyzed")]
       ELSE UNCHANGED <<wf, pass>> /\ pc' = "publish"
    /\ UNCHANGED <<now, rlVars, histVars, settings, files, failed, seen, noticed,
                   queue, is_running>>
    /\ UNCHANGED <<watcher, remote, consumers, queue_manager>>
\* _process_upload_workflow, lines 226-242: the request and its caption
Analyze ==
    /\ pc = "analyze"
    /\ IF settings.analysis_enabled
       THEN /\ \E caption \in {"described", "none"} : wf' = [wf EXCEPT !.caption = caption]
            /\ pass' = [pass EXCEPT !.steps = Append(@, "analyzed")]
       ELSE UNCHANGED <<wf, pass>>
    /\ pc' = "publish"
    /\ UNCHANGED <<now, rlVars, histVars, settings, files, failed, seen, noticed,
                   queue, is_running>>
    /\ UNCHANGED <<watcher, remote, consumers, queue_manager>>

\* an UploadResult
UploadResult(success, error_message, error_type) ==
    [success |-> success, error_message |-> error_message, error_type |-> error_type]

\* the HTTP statuses api.tumblr.com, or a proxy in front of it, answers with
HttpStatuses == {200, 201, 400, 401, 403, 404, 429, 500, 503}

\* the body {"meta": {"status": ..., "msg": ...}, "response": ...} of the
\* Tumblr API, whose meta.status repeats the HTTP status
Envelope(status, has_id) == [kind |-> "envelope", status |-> status, has_id |-> has_id]

\* what requests.post and response.json() bring back to create_photo_post
\* (lines 44-48): the envelope with or without a post id, a JSON body without
\* meta, an empty JSON body, a body that is not JSON, or an exception raised
\* by requests.post or by open()
Replies ==
    {Envelope(s, FALSE) : s \in HttpStatuses}
    \cup {Envelope(s, TRUE) : s \in {h \in HttpStatuses : h < 400}}
    \cup {[kind |-> k, status |-> s, has_id |-> FALSE] :
             k \in {"no_meta", "empty", "not_json"}, s \in HttpStatuses}
    \cup {[kind |-> k, status |-> 0, has_id |-> FALSE] :
             k \in {"transport_exception", "other_exception"}}

\* the except clause of _publish_post_impl the call ends in, if it raises:
\* response.json() raises requests.exceptions.JSONDecodeError, a
\* RequestException, or with an older requests a plain ValueError
RaisedBy(reply) ==
    CASE reply.kind = "transport_exception" -> {"RequestException"}
      [] reply.kind = "other_exception" -> {"Exception"}
      [] reply.kind = "not_json" -> {"RequestException", "Exception"}
      [] OTHER -> {}

\* _extract_error_message
ExtractErrorMessage(response) ==
    CASE response.kind = "empty" -> "No response from API"
      [] response.kind = "envelope" -> "msg"
      [] OTHER -> "Unknown error"

\* _classify_error
ClassifyError(response) ==
    IF response.kind = "empty" THEN "no_response"
    ELSE IF response.kind = "envelope" /\ response.status = 401 THEN "authentication_error"
    ELSE IF response.kind = "envelope" /\ response.status = 403 THEN "permission_error"
    ELSE IF response.kind = "envelope" /\ response.status = 429 THEN "rate_limit_error"
    ELSE IF response.kind = "envelope" /\ response.status >= 500 THEN "server_error"
    ELSE IF response.kind = "envelope" /\ response.status >= 400 THEN "client_error"
    ELSE "api_error"

\* _publish_post_impl: the results it can return when create_photo_post meets
\* the reply
PublishPostImpl(file_path, reply) ==
    IF ~settings.client_ready
    THEN {UploadResult(FALSE, "Tumblr API client not initialized", "configuration_error")}
    ELSE IF ~Exists(file_path)
    THEN {UploadResult(FALSE, "File does not exist", "file_error")}
    ELSE IF RaisedBy(reply) # {}
    THEN {IF e = "RequestException"
          THEN UploadResult(FALSE, "Network error", "network_error")
          ELSE UploadResult(FALSE, "Unexpected error", "unknown_error") :
             e \in RaisedBy(reply)}
    ELSE IF reply.kind = "envelope" /\ reply.has_id
    THEN {UploadResult(TRUE, "none", "none")}
    ELSE {UploadResult(FALSE, ExtractErrorMessage(reply), ClassifyError(reply))}

\* no reply
NoReply == [kind |-> "none", status |-> 0, has_id |-> FALSE]

\* no call of publish_post under way
NoRemote ==
    [file_path |-> NoPath, reply |-> NoReply, returned |-> FALSE,
     result |-> UploadResult(FALSE, "none", "none")]

\* _publish_post_impl, lines 134-154: both checks pass and create_photo_post
\* is called
ReachesNetwork == settings.client_ready /\ Exists(wf.file_path)

\* _publish_post_impl: the results it can return for the request
PublishResults ==
    IF ~settings.client_ready
    THEN {UploadResult(FALSE, "Tumblr API client not initialized", "configuration_error")}
    ELSE IF ~Exists(wf.file_path)
    THEN {UploadResult(FALSE, "File does not exist", "file_error")}
    ELSE {UploadResult(TRUE, "none", "none")}
         \cup {UploadResult(FALSE, f.error_message, f.error_type) : f \in PublishFailures}

\* line 248 run only for a successful publish
AfterPublishOnSuccess(success) == IF success THEN "record" ELSE "dispose"
\* the step after publish_post has returned, whatever the result (line 248)
AfterPublish(success) == "record"

\* _process_upload_workflow, line 245: publish_post
Publish ==
    /\ pc = "publish"
    /\ \E result \in PublishResults :
          wf' = [wf EXCEPT !.success = result.success,
                           !.error_message = result.error_message,
                           !.error_type = result.error_type]
    /\ pass' = [pass EXCEPT !.publishCalls = @ + 1, !.network = ReachesNetwork,
                            !.steps = Append(@, "published")]
    /\ pc' = AfterPublish(wf'.success)
    /\ UNCHANGED <<now, rlVars, histVars, settings, files, failed, seen, noticed,
                   queue, is_running>>
    /\ UNCHANGED <<watcher, remote, consumers, queue_manager>>

\* _process_upload_workflow, line 248: record_upload
Record ==
    /\ pc = "record"
    /\ RecordUploadEffect
    /\ slot' = "idle"
    /\ pass' = [pass EXCEPT !.recordCalls = @ + 1, !.steps = Append(@, "recorded")]
    /\ pc' = "dispose"
    /\ UNCHANGED <<now, settings, files, failed, seen, noticed, queue, is_running, wf>>
    /\ UNCHANGED <<watcher, remote, consumers, queue_manager>>

\* was a conversion made (lines 334-335 and 371-372)
WasConverted ==
    wf.converted_file_path # NoPath /\ wf.converted_file_path # wf.original_file_path

\* EventType.UPLOAD_COMPLETED / UPLOAD_FAILED with their data (lines 349-355, 384-390)
LifecycleEvent(type) ==
    [type |-> type, file_path |-> wf.original_file_path,
     error_message |-> wf.error_message, error_type |-> wf.error_type,
     was_converted |-> wf.converted_file_path # NoPath]

\* _handle_successful_upload: the watched directory afterwards
FilesAfterSuccess ==
    LET cleaned == CleanupSuccessful(wf.file_path).files
    IN  IF WasConverted /\ ~settings.keep_original
           /\ wf.original_file_path \in DOMAIN cleaned
        THEN Without(cleaned, wf.original_file_path)
        ELSE cleaned

HandleSuccessfulUpload ==
    /\ files' = FilesAfterSuccess
    /\ pass' = [pass EXCEPT !.events = Append(@, LifecycleEvent("upload_completed")),
                            !.outcome = "success",
                            !.steps = Append(@, "disposed")]
    /\ UNCHANGED failed

\* lines 370-381 left out: the converted file is not unlinked
FilesAfterFailureKeepConverted == MoveToFailed(wf.original_file_path).files
\* _handle_failed_upload: the watched directory afterwards
FilesAfterFailure ==
    LET moved == MoveToFailed(wf.original_file_path).files
    IN  IF WasConverted /\ wf.converted_file_path \in DOMAIN moved
        THEN Without(moved, wf.converted_file_path)
        ELSE moved

\* a failed upload disposed of like a successful one: the file is deleted
HandleFailedUploadDeletes ==
    /\ files' = CleanupSuccessful(wf.original_file_path).files
    /\ pass' = [pass EXCEPT !.events = Append(@, LifecycleEvent("upload_failed")),
                            !.outcome = "failure",
                            !.steps = Append(@, "disposed")]
    /\ UNCHANGED failed
HandleFailedUpload ==
    /\ files' = FilesAfterFailure
    /\ failed' = MoveToFailed(wf.original_file_path).failed
    /\ pass' = [pass EXCEPT !.events = Append(@, LifecycleEvent("upload_failed")),
                            !.moved = wf.original_file_path,
                            !.outcome = "failure",
                            !.steps = Append(@, "disposed")]

\* _process_upload_workflow, lines 250-259: step 7
Dispose ==
    /\ pc = "dispose"
    /\ IF wf.success THEN HandleSuccessfulUpload ELSE HandleFailedUpload
    /\ pc' = AfterPass(IF wf.success THEN "success" ELSE "failure")
    /\ UNCHANGED <<now, rlVars, histVars, settings, seen, noticed, queue,
                   is_running, wf>>
    /\ UNCHANGED <<watcher, remote, consumers, queue_manager>>

\* the path _handle_workflow_error hands to move_to_failed (line 401)
WorkflowErrorPath == wf.file_path

\* _process_upload_workflow, lines 261-262, with _handle_workflow_error
HandleWorkflowError ==
    /\ pc = "except"
    /\ files' = MoveToFailed(WorkflowErrorPath).files
    /\ failed' = MoveToFailed(WorkflowErrorPath).failed
    /\ pass' = [pass EXCEPT !.moved = WorkflowErrorPath, !.outcome = "error",
                            !.steps = Append(@, "moved_on_error")]
    /\ pc' = AfterPass("error")
    /\ UNCHANGED <<now, rlVars, histVars, settings, seen, noticed, queue,
                   is_running, wf>>
    /\ UNCHANGED <<watcher, remote, consumers, queue_manager>>

(***************************************************************************)
(* QueueManagerAgent: the upload queue is refilled from the staging tree    *)
(***************************************************************************)
\* the most files one staging category holds
MaxStaged == 2
\* the names a file of a category can have, in staging and in the queue
QueueFileNames == 1..MaxStaged
\* the category folders, in the order that sorted() gives them (line 72)
CategoryOrder == <<"art", "cats", "dogs">>
CategoryNames == {CategoryOrder[i] : i \in DOMAIN CategoryOrder}
\* min_queue_threshold and target_queue_size as the agent reads them: a low
\* threshold with a far target, a target just above the threshold, and a
\* target below the threshold
QueueSettings ==
    {[min_queue_threshold |-> 1, target_queue_size |-> 5],
     [min_queue_threshold |-> 3, target_queue_size |-> 4],
     [min_queue_threshold |-> 3, target_queue_size |-> 2]}

\* what the last pass of _monitor_queue did
NoReplenish ==
    [replenished |-> FALSE, before |-> 0, needed |-> 0, quotas |-> <<>>,
     moved |-> 0, after |-> 0]
\* an agent that was never created
NoQueueManager ==
    [min_queue_threshold |-> 0, target_queue_size |-> 0,
     upload |-> [c \in {} |-> {}], staging |-> [c \in {} |-> {}],
     check |-> NoReplenish]
QueueManagerOff == queue_manager = NoQueueManager

RECURSIVE SizeOf(_)
\* the files of a tree of category folders, counted folder by folder
SizeOf(tree) ==
    IF DOMAIN tree = {} THEN 0
    ELSE LET c == CHOOSE x \in DOMAIN tree : TRUE
         IN  Cardinality(tree[c]) + SizeOf([x \in DOMAIN tree \ {c} |-> tree[x]])
\* _get_current_queue_size
GetCurrentQueueSize == SizeOf(queue_manager.upload)
\* _get_staging_categories: the folders of the staging directory, sorted
GetStagingCategories ==
    SelectSeq(CategoryOrder, LAMBDA c : c \in DOMAIN queue_manager.staging)

\* a quota that gives the extra file to one category too many
ImagesToMoveOneMore(i, needed, n) ==
    (needed \div n) + (IF i - 1 <= needed % n THEN 1 ELSE 0)
\* lines 47-50: the quota of the i-th category of n (enumerate counts from 0)
ImagesToMove(i, needed, n) ==
    (needed \div n) + (IF i - 1 < needed % n THEN 1 ELSE 0)
\* the quotas of all n categories
Quotas(needed, n) == [i \in 1..n |-> ImagesToMove(i, needed, n)]

RECURSIVE SumOf(_)
SumOf(s) == IF s = <<>> THEN 0 ELSE s[1] + SumOf(Tail(s))

\* _move_category_images for every category: files[:count] is any count of
\* the folder's files (iterdir gives no order), and a shutil.move that raises
\* leaves its file where it is
MovesFor(categories, quotas) ==
    {m \in [DOMAIN queue_manager.staging -> SUBSET QueueFileNames] :
        \A i \in DOMAIN categories :
            LET c == categories[i]
            IN  /\ m[c] \subseteq queue_manager.staging[c]
                /\ Cardinality(m[c]) <= quotas[i]}
\* the files a category of the queue holds after the move: a file of the
\* same name is replaced
UploadAfter(m) ==
    [c \in CategoryNames |->
        queue_manager.upload[c] \cup (IF c \in DOMAIN m THEN m[c] ELSE {})]
StagingAfter(m) ==
    [c \in DOMAIN queue_manager.staging |-> queue_manager.staging[c] \ m[c]]
MovedBy(m, categories) == SumOf([i \in DOMAIN categories |-> Cardinality(m[categories[i]])])

\* _replenish_queue, lines 35-53
ReplenishQueue ==
    LET current_size == GetCurrentQueueSize
        needed == queue_manager.target_queue_size - current_size
        categories == GetStagingCategories
        quotas == Quotas(needed, Len(categories))
    IN  IF needed <= 0 \/ categories = <<>>
        THEN queue_manager' =
                [queue_manager EXCEPT !.check =
                    [NoReplenish EXCEPT !.replenished = TRUE, !.before = current_size,
                                        !.after = current_size]]
        ELSE \E m \in MovesFor(categories, quotas) :
                queue_manager' =
                    [queue_manager EXCEPT
                        !.upload = UploadAfter(m),
                        !.staging = StagingAfter(m),
                        !.check = [replenished |-> TRUE, before |-> current_size,
                                   needed |-> needed, quotas |-> quotas,
                                   moved |-> MovedBy(m, categories),
                                   after |-> SizeOf(UploadAfter(m))]]

\* one turn of the loop of _monitor_queue, lines 24-29
MonitorQueue ==
    /\ IF GetCurrentQueueSize < queue_manager.min_queue_threshold
       THEN ReplenishQueue
       ELSE queue_manager' =
                [queue_manager EXCEPT !.check =
                    [NoReplenish EXCEPT !.before = GetCurrentQueueSize,
                                        !.after = GetCurrentQueueSize]]
    /\ UNCHANGED <<now, rlVars, histVars, wfVars, watcher, remote, consumers>>

\* the uploader takes a file out of the queue
QueuedFileLeaves ==
    /\ \E c \in CategoryNames : \E f \in queue_manager.upload[c] :
          queue_manager' =
              [queue_manager EXCEPT !.upload[c] = @ \ {f}, !.check = NoReplenish]
    /\ UNCHANGED <<now, rlVars, histVars, wfVars, watcher, remote, consumers>>

(***************************************************************************)
(* The rate limiter driven through its public operations in any order      *)
(***************************************************************************)
\* the orchestrator before start(): nothing watched, nothing queued
WorkflowOff ==
    /\ settings = [enable_conversion |-> FALSE, keep_original |-> FALSE,
                   analysis_enabled |-> FALSE, client_ready |-> FALSE]
    /\ files = <<>>
    /\ failed = <<>>
    /\ seen = {}
    /\ noticed = {}
    /\ queue = <<>>
    /\ is_running = FALSE
    /\ pc = "off"
    /\ wf = NoWorkflow
    /\ pass = NoPass
    /\ watcher = NoWatcher
    /\ remote = NoRemote
    /\ consumers = <<>>

InitRL == now = StartTime /\ RLInit(RLConfigs) /\ WorkflowOff /\ QueueManagerOff

NextRL ==
    \/ ShouldAllowUpload
    \/ RecordUpload
    \/ WaitForNextSlot
    \/ GetEstimatedWaitTime
    \/ CleanupOldData
    \/ Tick

SpecRL == InitRL /\ [][NextRL]_vars

\* the rate limiter of the burst scenario: no delay, a window of two, and
\* hourly and daily maxima that two uploads do not reach
BurstScenarioConfigs ==
    {[upload_delay |-> 0, max_uploads_per_hour |-> MaxUploads,
      max_uploads_per_day |-> MaxUploads, burst_limit |-> 2]}

InitRLBurst == now = StartTime /\ RLInit(BurstScenarioConfigs) /\ WorkflowOff /\ QueueManagerOff

SpecRLBurst == InitRLBurst /\ [][NextRL]_vars

\* the rate limiter with its administrative reset
NextRLReset ==
    \/ NextRL
    \/ ResetCounters

\* one configuration is enough for the counters: a delay and a window of two
ResetConfigs == {c \in RLConfigs : c.upload_delay = 5 /\ c.burst_limit = 2}

InitRLReset == now = StartTime /\ RLInit(ResetConfigs) /\ WorkflowOff /\ QueueManagerOff

SpecRLReset == InitRLReset /\ [][NextRLReset]_vars

\* the burst window on its own: no delay, maxima that MaxUploads uploads do
\* not reach, and a burst_limit of zero, one or two
WindowBurstLimits == {0, 1, 2}
WindowConfigs ==
    [upload_delay : {0}, max_uploads_per_hour : {MaxUploads + 1},
     max_uploads_per_day : {MaxUploads + 1}, burst_limit : WindowBurstLimits]

InitRLWindow == now = StartTime /\ RLInit(WindowConfigs) /\ WorkflowOff /\ QueueManagerOff

NextRLWindow ==
    \/ ShouldAllowUpload
    \/ RecordUpload
    \/ CleanupOldData
    \/ Tick

SpecRLWindow == InitRLWindow /\ [][NextRLWindow]_vars

\* get_rate_limit_status: the remaining amounts of lines 212-220
HourlyRemaining == Max({0, config.max_uploads_per_hour - hourly_uploads})
DailyRemaining == Max({0, config.max_uploads_per_day - daily_uploads})
DelayRemaining(t) == Max({0, config.upload_delay - (t - last_upload_time)})
BurstRemaining == Max({0, config.burst_limit - Len(upload_times)})
\* line 232: the can_upload_now entry of the returned dictionary
CanUploadNow(t) ==
    DelayRemaining(t) = 0 /\ BurstRemaining > 0 /\ HourlyRemaining > 0
    /\ DailyRemaining > 0

\* get_rate_limit_status(), called at the current time; it changes nothing
GetRateLimitStatus ==
    /\ last' = Call("get_rate_limit_status",
                    IF CanUploadNow(now) THEN "True" ELSE "False", 0)
    /\ slot' = "idle"
    /\ UNCHANGED <<now, rlVars, recorded, hourMarker, checkedDate, wfVars>>
    /\ UNCHANGED <<watcher, remote, consumers, queue_manager>>

\* the rate limiter with its status report
NextRLStatus ==
    \/ ShouldAllowUpload
    \/ RecordUpload
    \/ CleanupOldData
    \/ GetRateLimitStatus
    \/ Tick

SpecRLStatus == InitRL /\ [][NextRLStatus]_vars

(***************************************************************************)
(* The queue manager on its own                                            *)
(***************************************************************************)
\* the queue is empty or holds one file of the first category; the staging
\* tree has any of the category folders, each with any of the files
InitQueue ==
    /\ now = StartTime
    /\ RLInit(ResetConfigs)
    /\ WorkflowOff
    /\ \E s \in QueueSettings, dirs \in SUBSET CategoryNames :
          \E first \in {{}, {1}}, staging \in [dirs -> SUBSET QueueFileNames] :
              queue_manager =
                  [min_queue_threshold |-> s.min_queue_threshold,
                   target_queue_size |-> s.target_queue_size,
                   upload |-> [c \in CategoryNames |->
                                 IF c = CategoryOrder[1] THEN first ELSE {}],
                   staging |-> staging,
                   check |-> NoReplenish]

NextQueue ==
    \/ MonitorQueue
    \/ QueuedFileLeaves

SpecQueue == InitQueue /\ [][NextQueue]_vars

(***************************************************************************)
(* The rate limiter as _process_upload_workflow drives it                  *)
(***************************************************************************)
\* RateLimitConfig of the driven limiter: an hourly maximum of one or two
DrivenHourMaxima == {1, 2}
DrivenConfigs ==
    [upload_delay : UploadDelays, max_uploads_per_hour : DrivenHourMaxima,
     max_uploads_per_day : DayMaxima, burst_limit : BurstLimits]

\* get_file_events yields an event whose file passes validation and
\* conversion: the pass arrives at step 2 (line 217)
DrivenPassBegins ==
    /\ pc = "get"
    /\ Len(recorded) < MaxUploads
    /\ pc' = "admit"
    /\ pass' = [NoPass EXCEPT !.outcome = "running", !.previous = pass.outcome,
                              !.before = LimiterCounters]
    /\ UNCHANGED <<now, rlVars, histVars, settings, files, failed, seen, noticed,
                   queue, is_running, wf>>
    /\ UNCHANGED <<watcher, remote, consumers, queue_manager>>

\* lines 226-245: the request is built, the image analysed and publish_post
\* returns; line 248 is next
DrivenPublish ==
    /\ pc = "analyze"
    /\ pc' = AfterPublish(TRUE)
    /\ pass' = [pass EXCEPT !.publishCalls = @ + 1, !.steps = Append(@, "published")]
    /\ UNCHANGED <<now, rlVars, histVars, settings, files, failed, seen, noticed,
                   queue, is_running, wf>>
    /\ UNCHANGED <<watcher, remote, consumers, queue_manager>>

\* lines 250-262: step 7 or the except clause, and the consumer is back in
\* get_file_events
DrivenPassEnds ==
    /\ pc \in {"dispose", "except"}
    /\ pc' = "get"
    /\ pass' = [pass EXCEPT !.outcome = IF pc = "except" THEN "error" ELSE "success"]
    /\ UNCHANGED <<now, rlVars, histVars, settings, files, failed, seen, noticed,
                   queue, is_running, wf>>
    /\ UNCHANGED <<watcher, remote, consumers, queue_manager>>

InitDriven ==
    /\ now = StartTime
    /\ RLInit(DrivenConfigs)
    /\ settings = [enable_conversion |-> FALSE, keep_original |-> FALSE,
                   analysis_enabled |-> FALSE, client_ready |-> TRUE]
    /\ files = <<>>
    /\ failed = <<>>
    /\ seen = {}
    /\ noticed = {}
    /\ queue = <<>>
    /\ is_running = TRUE
    /\ pc = "get"
    /\ wf = NoWorkflow
    /\ pass = NoPass
    /\ watcher = NoWatcher
    /\ remote = NoRemote
    /\ consumers = <<>>
    /\ QueueManagerOff

NextDriven ==
    \/ DrivenPassBegins
    \/ Admit
    \/ WaitSlot
    \/ DrivenPublish
    \/ Record
    \/ DrivenPassEnds
    \/ CleanupOldData
    \/ Tick

SpecDriven == InitDriven /\ [][NextDriven]_vars

(***************************************************************************)
(* The upload workflow: watcher, queue, consumer and the agents it calls   *)
(***************************************************************************)
\* the settings of ImageConversionConfig, ImageAnalysisConfig and the publisher
Settings ==
    [enable_conversion : BOOLEAN, keep_original : BOOLEAN,
     analysis_enabled : BOOLEAN, client_ready : BOOLEAN]

\* the watched directory when the system starts
InitialDirectories ==
    {[n \in S |-> 1] : S \in SUBSET UserFiles}

\* UploadOrchestratorAgent._start_work: agents built and started, the
\* consumer task created
InitWF ==
    /\ now = StartTime
    /\ RLInit(WorkflowConfigs)
    /\ settings \in Settings
    /\ files \in InitialDirectories
    /\ failed = <<>>
    /\ seen = DOMAIN files
    /\ noticed = DOMAIN files
    /\ queue = <<>>
    /\ is_running = TRUE
    /\ pc = "scan"
    /\ wf = NoWorkflow
    /\ pass = NoPass
    /\ watcher = NoWatcher
    /\ remote = NoRemote
    /\ consumers = <<>>
    /\ QueueManagerOff

NextWF ==
    \/ FileArrives
    \/ FileGrows
    \/ OnCreated
    \/ ScanExistingFiles
    \/ Stop
    \/ LoopTop
    \/ GetEvent
    \/ GetTimeout
    \/ ValidateExists
    \/ ValidateFirstRead
    \/ ValidateSecondRead
    \/ ConvertIfNeeded
    \/ ConvertRaises
    \/ Admit
    \/ WaitSlot
    \/ Analyze
    \/ Publish
    \/ Record
    \/ Dispose
    \/ HandleWorkflowError

SpecWF == InitWF /\ [][NextWF]_vars

(***************************************************************************)
(* The same workflow over the files found at startup, when the file system *)
(* and the queue misbehave                                                  *)
(***************************************************************************)
\* someone else removes a file from the watched directory
FileVanishes ==
    /\ \E path \in DOMAIN files : files' = Without(files, path)
    /\ UNCHANGED <<now, rlVars, histVars, settings, failed, seen, noticed, queue,
                   is_running, pc, wf, pass>>
    /\ UNCHANGED <<watcher, remote, consumers, queue_manager>>

\* the writer of a file under validation truncates it and starts over
FileTruncated ==
    /\ \E path \in DOMAIN files \cap UserFiles :
          /\ AwaitingValidation(path)
          /\ files[path] > 1
          /\ files' = [files EXCEPT ![path] = 1]
    /\ UNCHANGED <<now, rlVars, histVars, settings, failed, seen, noticed, queue,
                   is_running, pc, wf, pass>>
    /\ UNCHANGED <<watcher, remote, consumers, queue_manager>>

\* get_file_events, lines 189-191: queue.get raises, the error is handled and
\* the generator sleeps and goes on
QueueGetRaises ==
    /\ pc = "get"
    /\ pc' = "loop"
    /\ UNCHANGED <<now, rlVars, histVars, settings, files, failed, seen, noticed,
                   queue, is_running, wf, pass>>
    /\ UNCHANGED <<watcher, remote, consumers, queue_manager>>

\* step 7 when unlink or shutil.move fail: the file manager and the handlers
\* catch the error (file_manager.py 92-98 and 124-130, orchestrator.py 343-346
\* and 378-381), the files stay and the event is emitted
DisposeFsError ==
    /\ pc = "dispose"
    /\ pass' = IF wf.success
               THEN [pass EXCEPT !.events = Append(@, LifecycleEvent("upload_completed")),
                                 !.outcome = "success",
                            !.steps = Append(@, "disposed")]
               ELSE [pass EXCEPT !.events = Append(@, LifecycleEvent("upload_failed")),
                                 !.moved = wf.original_file_path,
                                 !.outcome = "failure",
                            !.steps = Append(@, "disposed")]
    /\ pc' = AfterPass(IF wf.success THEN "success" ELSE "failure")
    /\ UNCHANGED <<now, rlVars, histVars, settings, files, failed, seen, noticed,
                   queue, is_running, wf>>
    /\ UNCHANGED <<watcher, remote, consumers, queue_manager>>

\* step 7 when exists() raises outside every try (file_manager.py 62 and 111,
\* orchestrator.py 337 and 373): the except clause of line 261 takes over
DisposeRaises ==
    /\ pc = "dispose"
    /\ pass' = [pass EXCEPT !.raised = "dispose"]
    /\ pc' = "except"
    /\ UNCHANGED <<now, rlVars, histVars, settings, files, failed, seen, noticed,
                   queue, is_running, wf>>
    /\ UNCHANGED <<watcher, remote, consumers, queue_manager>>

\* _handle_workflow_error when shutil.move fails inside move_to_failed
WorkflowErrorMoveFails ==
    /\ pc = "except"
    /\ pass' = [pass EXCEPT !.moved = WorkflowErrorPath, !.outcome = "error",
                            !.steps = Append(@, "moved_on_error")]
    /\ pc' = AfterPass("error")
    /\ UNCHANGED <<now, rlVars, histVars, settings, files, failed, seen, noticed,
                   queue, is_running, wf>>
    /\ UNCHANGED <<watcher, remote, consumers, queue_manager>>

\* _handle_workflow_error raises in its turn (exists() at file_manager.py 62):
\* execute_task re-raises and _main_workflow, lines 178-183, handles the error
WorkflowErrorRaises ==
    /\ pc = "except"
    /\ pass' = [pass EXCEPT !.outcome = "raised"]
    /\ pc' = AfterPass("raised")
    /\ UNCHANGED <<now, rlVars, histVars, settings, files, failed, seen, noticed,
                   queue, is_running, wf>>
    /\ UNCHANGED <<watcher, remote, consumers, queue_manager>>

NextWFFaults ==
    \/ FileGrows
    \/ OnCreated
    \/ ScanExistingFiles
    \/ Stop
    \/ LoopTop
    \/ GetEvent
    \/ GetTimeout
    \/ ValidateExists
    \/ ValidateFirstRead
    \/ ValidateSecondRead
    \/ ConvertIfNeeded
    \/ ConvertRaises
    \/ Admit
    \/ WaitSlot
    \/ Analyze
    \/ Publish
    \/ Record
    \/ Dispose
    \/ HandleWorkflowError
    \/ FileVanishes
    \/ FileTruncated
    \/ QueueGetRaises
    \/ DisposeFsError
    \/ DisposeRaises
    \/ WorkflowErrorMoveFails
    \/ WorkflowErrorRaises

SpecWFFaults == InitWF /\ [][NextWFFaults]_vars

(***************************************************************************)
(* Properties of the rate limiter                                          *)
(***************************************************************************)
\* the four constraints, stated on the recorded uploads and the counters, at
\* the instant of a call
RecordedWithinWindow == {i \in DOMAIN recorded : now - recorded[i] < BurstWindow}
DayConstraintViolated == daily_uploads >= config.max_uploads_per_day
HourConstraintViolated == hourly_uploads >= config.max_uploads_per_hour
DelayConstraintViolated ==
    recorded # <<>> /\ now - recorded[Len(recorded)] < config.upload_delay
BurstConstraintViolated == Cardinality(RecordedWithinWindow) >= config.burst_limit
SomeConstraintViolated ==
    \/ DayConstraintViolated
    \/ HourConstraintViolated
    \/ DelayConstraintViolated
    \/ BurstConstraintViolated

JustChecked == last.op = "should_allow_upload"

C2_AllowedAfterWait == slot = "rechecked" => last.ret = "True"

\* C2 witness: the re-check after the wait is denied although the wait was
\* taken from the daily limit.
C2_Witness == slot = "rechecked" /\ last.ret = "False" /\ DayConstraintViolated

\* C3: the first check after the calendar day has changed resets the daily
\* counter to zero and updates the day marker before the daily limit is
\* evaluated, so a limiter that had reached max_uploads_per_day admits again.
C3_DailyResetOnDayChange ==
    (JustChecked /\ last.dayCrossed) =>
        /\ daily_uploads = 0
        /\ last_reset_date = DateOf(now)
        /\ (~HourConstraintViolated /\ ~DelayConstraintViolated
            /\ ~BurstConstraintViolated => last.ret = "True")

\* C3 witness: the first check of a new day finds the counter of the day
\* before still at the daily maximum and denies the upload.
C3_Witness ==
    /\ JustChecked /\ last.dayCrossed
    /\ daily_uploads >= config.max_uploads_per_day
    /\ RecordedWithinWindow = {}
    /\ last.ret = "False"

\* C4: every check (should_allow_upload or a wait-time computation) made
\* after one or more hour boundaries have passed since the hour marker was
\* stored sees a zeroed hourly counter and an updated marker; with no
\* boundary crossed the counter is left as it was.
C4_HourlyResetOncePerCrossing ==
    last.op \in {"should_allow_upload", "get_estimated_wait_time"} =>
        IF last.hourCrossed
        THEN hourly_uploads = 0 /\ current_hour = HourOf(now)
        ELSE hourly_uploads = last.hourlyBefore

\* C4 witness: a should_allow_upload made a whole day after the marker was
\* stored, in the same hour of the day, leaves the full counter in place.
C4_Witness ==
    /\ JustChecked /\ last.hourCrossed
    /\ hourly_uploads >= config.max_uploads_per_hour
    /\ last.ret = "False"

(***************************************************************************)
(* Properties of the upload workflow                                       *)
(***************************************************************************)
\* the latest pass has ended in a terminal outcome
PassEnded == pass.outcome \in {"success", "failure", "error"}
\* some entry of the failed-uploads tree was moved there from path
InFailedTree(path) == \E d \in DOMAIN failed : failed[d] = path

\* C5: after a pass that ended in publish success, publish failure or an
\* unexpected exception, whatever the conversion and keep-original settings,
\* neither the detected file nor its converted artifact is in the watched
\* category directory.
C5_NothingLeftAfterTerminalOutcome ==
    PassEnded =>
        /\ ~Exists(pass.detected)
        /\ wf.converted_file_path # NoPath => ~Exists(wf.converted_file_path)

\* a converted file was uploaded with keep_original set, and the pass ended
C5_Witness ==
    /\ pass.outcome = "success"
    /\ WasConverted
    /\ settings.keep_original

\* C6: when a step of a pass raises, also one that runs after a successful
\* conversion, the file moved to the failed-uploads tree is the original
\* detected file and not the converted one, and the converted artifact is not
\* left in the watched directory.
C6_ExceptionMovesOriginal ==
    pass.outcome = "error" =>
        /\ pass.moved = wf.original_file_path
        /\ InFailedTree(wf.original_file_path)
        /\ ~Exists(wf.original_file_path)
        /\ WasConverted => ~Exists(wf.converted_file_path)

\* should_allow_upload raised after the file had been converted
C6_Witness ==
    /\ pass.outcome = "error"
    /\ pass.raised = "admit"
    /\ WasConverted

\* C7: after a pass whose publish attempt failed, the original detected file
\* is in the failed tree and not the converted one, the converted artifact is
\* gone from the watched directory, and exactly one upload-failed event with
\* the publisher's error message and error kind was emitted.
C7_FailedPublishMovesOriginal ==
    pass.outcome = "failure" =>
        /\ pass.moved = pass.detected
        /\ InFailedTree(pass.detected)
        /\ ~Exists(pass.detected)
        /\ WasConverted => ~Exists(wf.converted_file_path)
        /\ Len(pass.events) = 1
        /\ pass.events[1].type = "upload_failed"
        /\ UploadResult(FALSE, pass.events[1].error_message, pass.events[1].error_type)
              \in {UploadResult(FALSE, "Tumblr API client not initialized",
                                "configuration_error")}
                  \cup {UploadResult(FALSE, f.error_message, f.error_type) :
                           f \in PublishFailures}
        /\ pass.events[1].error_message = wf.error_message
        /\ pass.events[1].error_type = wf.error_type

\* the publish of a converted file failed
C7_Witness ==
    /\ pass.outcome = "failure"
    /\ WasConverted
    /\ pass.events[1].error_type = "permission_error"

\* C8: after a pass whose publish succeeded, the uploaded file is deleted, the
\* original is deleted when a conversion occurred and keep_original is false,
\* exactly one upload-completed event was emitted, and no file of the
\* processed item is left in the watched directory.
C8_SuccessLeavesNothing ==
    pass.outcome = "success" =>
        /\ ~Exists(wf.file_path)
        /\ (WasConverted /\ ~settings.keep_original) => ~Exists(wf.original_file_path)
        /\ Len(pass.events) = 1
        /\ pass.events[1].type = "upload_completed"
        /\ ~Exists(pass.detected)
        /\ WasConverted => ~Exists(wf.converted_file_path)

\* a converted file was uploaded and its pass ended
C8_Witness ==
    /\ pass.outcome = "success"
    /\ WasConverted
    /\ Len(pass.events) = 1

\* the parts of C8 that do not depend on keep_original
C8_SuccessExceptKeptOriginal ==
    pass.outcome = "success" =>
        /\ ~Exists(wf.file_path)
        /\ (WasConverted /\ ~settings.keep_original) => ~Exists(wf.original_file_path)
        /\ Len(pass.events) = 1
        /\ pass.events[1].type = "upload_completed"
        /\ (~WasConverted \/ ~settings.keep_original) => ~Exists(pass.detected)

\* C9: no error of a pass ends the consumer loop: whichever step fails or
\* raises, the consumer returns to the head of the loop and takes the next
\* event, and it ends only after is_running has become False.
C9_OnlyStopEndsTheLoop ==
    /\ pc = "done" => ~is_running
    /\ pass.outcome \in {"success", "failure", "error", "rejected", "raised"} =>
          pc \in {"loop", "get", "done"}

\* the handler of a workflow error raised in its turn, and the consumer has
\* dequeued the next event
C9_Witness ==
    /\ pass.previous = "raised"
    /\ pass.outcome = "running"
    /\ is_running

\* C10: in every pass record_upload is called exactly once if the publisher
\* was invoked, whether the publish succeeded or failed, and not at all if the
\* pass ended before the publisher was invoked.
C10_RecordOncePerPublish ==
    /\ pass.publishCalls <= 1
    /\ pass.recordCalls <= pass.publishCalls
    /\ pass.outcome \in {"success", "failure", "error", "rejected", "raised"} =>
          pass.recordCalls = pass.publishCalls
    /\ pc = "dispose" => pass.recordCalls = 1

\* a failed publish was recorded, and a pass ended without a publish
C10_Witness ==
    /\ pass.outcome = "failure"
    /\ pass.publishCalls = 1
    /\ pass.recordCalls = 1
    /\ pass.previous \in {"rejected", "error"}

\* C11: a failed publish is recorded only if it reached the network call: when
\* the publisher returns a failure without contacting the remote service (no
\* API client, or the file is gone), the pass leaves the rate limiter's
\* counters, burst window and last_upload_time as they were.
C11_NoRecordWithoutNetworkCall ==
    (pass.publishCalls = 1 /\ ~pass.network /\ pc # "record") =>
        /\ pass.recordCalls = 0
        /\ LimiterCounters = pass.before

\* the publisher returned "Tumblr API client not initialized" and the pass ended
C11_Witness ==
    /\ pass.outcome = "failure"
    /\ ~pass.network
    /\ wf.error_type = "configuration_error"

\* a publish that reached the network is recorded once
C11_RecordedAfterNetworkCall ==
    (pass.publishCalls = 1 /\ pass.network /\ pc # "record") => pass.recordCalls = 1

\* the place of a step in the order of section 4.4
StepRank(step) ==
    CASE step = "validated" -> 1
      [] step = "converted" -> 2
      [] step \in {"admitted", "denied"} -> 3
      [] step = "waited" -> 4
      [] step = "analyzed" -> 5
      [] step = "published" -> 6
      [] step = "recorded" -> 7
      [] OTHER -> 8
StepsTaken == {pass.steps[i] : i \in DOMAIN pass.steps}

\* C12: a pass takes its steps in the order validated, (converted), admitted,
\* (analyzed), published, recorded, disposition, none of them twice: the
\* publisher is invoked at most once, only after validation accepted the file
\* and the admission check and any wait are over, and a terminal file action
\* comes only after the publish attempt or an exception.
C12_StepsInLinearOrder ==
    /\ \A i, j \in DOMAIN pass.steps :
          i < j => StepRank(pass.steps[i]) < StepRank(pass.steps[j])
    /\ pass.publishCalls <= 1
    /\ "published" \in StepsTaken =>
          /\ "validated" \in StepsTaken
          /\ \/ "admitted" \in StepsTaken
             \/ {"denied", "waited"} \subseteq StepsTaken
    /\ "disposed" \in StepsTaken => {"published", "recorded"} \subseteq StepsTaken
    /\ "moved_on_error" \in StepsTaken => pass.raised # "none"

\* a pass that converted, was denied, waited, analyzed, published and disposed
C12_Witness ==
    pass.steps = <<"validated", "converted", "denied", "waited", "analyzed",
                   "published", "recorded", "disposed">>

\* C13: a file detected at one size, found at that size on the first re-check
\* and at another size when the second re-check is due, is rejected: the
\* validator accepts no file whose size is still changing at the second read.
C13_StillChangingIsRejected ==
    (pc = "convert" /\ pass.reads < 2 /\ Exists(wf.file_path)) =>
        files[wf.file_path] = wf.file_size

\* the validator accepted the file after one re-check and the file has grown
C13_Witness ==
    /\ "validated" \in StepsTaken
    /\ pass.reads = 1
    /\ pc = "convert"
    /\ Exists(wf.file_path)
    /\ files[wf.file_path] > wf.file_size

\* when the validator does read the size a second time, it accepts the file
\* only if the two re-checks agree
C13_SecondReadDecides ==
    ("validated" \in StepsTaken /\ pass.reads = 2) => wf.file_size = wf.current_size

(***************************************************************************)
(* Shutdown: TumblrUploadSystem.stop, run_forever and the exit of main     *)
(***************************************************************************)
\* the awaits at which the consumer task is parked in an asyncio sleep or in
\* the timed queue.get(): get_file_events line 182, _validate_file_ready
\* lines 273 and 284, _wait_for_next_slot_impl line 151
SuspensionPoints == {"get", "settle", "settle_again", "wait"}

\* main.py: stop() returns as soon as the agents are flagged stopped and sets
\* running = False (lines 79-85); run_forever leaves its loop within a second
\* (lines 118-126); main returns (line 149) and asyncio.run (line 160) cancels
\* the task created on orchestrator.py line 93, which nobody awaits.  The
\* CancelledError is raised at the await the task is parked in and passes the
\* `except Exception` clauses of lines 178 and 261.
MainExits ==
    /\ ~is_running
    /\ pc \in SuspensionPoints
    /\ pc' = "cancelled"
    /\ pass' = IF pass.outcome = "running"
               THEN [pass EXCEPT !.outcome = "aborted"]
               ELSE pass
    /\ UNCHANGED <<now, rlVars, histVars, settings, files, failed, seen, noticed,
                   queue, is_running, wf>>
    /\ UNCHANGED <<watcher, remote, consumers, queue_manager>>

NextWFShutdown ==
    \/ NextWF
    \/ MainExits

SpecWFShutdown == InitWF /\ [][NextWFShutdown]_vars

(***************************************************************************)
(* The bridge from a watchdog thread to the event loop                     *)
(***************************************************************************)
\* a FileCreatedEvent or DirCreatedEvent: event.src_path and event.is_directory
Created(path, is_directory) == [src_path |-> path, is_directory |-> is_directory]

\* what gets created in the watched directory: two images, one of them with
\* an upper-case suffix, a text file, and a directory named like an image
CreatedEntries ==
    {Created(FileName("a", ".jpg"), FALSE), Created(FileName("c", ".JPG"), FALSE),
     Created(FileName("n", ".txt"), FALSE), Created(FileName("album", ".jpg"), TRUE)}

\* on_created, lines 26-33: is the event dropped
Filtered(entry) ==
    \/ entry.is_directory
    \/ Lower(entry.src_path.ext) \notin FileExtensions

\* a call of on_created that has returned: its event, how it ended, the
\* size the file had when it ended, and the state of the loop at that moment
Delivery(entry, result) ==
    [src_path |-> entry.src_path, is_directory |-> entry.is_directory,
     result |-> result,
     size |-> IF Exists(entry.src_path) THEN files[entry.src_path] ELSE 0,
     event_loop |-> watcher.event_loop]

\* one more call of on_created has returned: the count of those that did so
\* during the pass the consumer is in
DuringPass(count) == IF pass.outcome = "running" THEN count + 1 ELSE count

\* on_created blocking on future.result() after scheduling the coroutine
AfterScheduleAwaitResult == [stage |-> "waiting", src_path |-> NoPath, existed |-> FALSE]
\* on_created, lines 45-49: the Future returned by run_coroutine_threadsafe
\* is dropped and the callback returns
AfterSchedule == NoCallback

\* a queue that hands out the newest event first
EnqueueFirst(q, event) == <<event>> \o q
\* asyncio.Queue.put on the unbounded queue of FileWatcherAgent.__init__
Enqueue(q, event) == Append(q, event)

\* something appears in the watched directory
EntryCreated ==
    /\ \E entry \in CreatedEntries, size \in 1..MaxSize :
          /\ entry.src_path \notin seen
          /\ seen' = seen \cup {entry.src_path}
          /\ files' = IF entry.is_directory THEN files
                      ELSE With(files, entry.src_path, size)
    /\ UNCHANGED <<now, rlVars, histVars, settings, failed, noticed, queue,
                   is_running, pc, wf, pass, watcher, remote, consumers, queue_manager>>

\* a file is removed again before on_created has finished with it
EntryRemoved ==
    /\ \E path \in DOMAIN files :
          /\ path \notin noticed \/ watcher.callback.src_path = path
          /\ files' = Without(files, path)
    /\ UNCHANGED <<now, rlVars, histVars, settings, failed, seen, noticed, queue,
                   is_running, pc, wf, pass, watcher, remote, consumers, queue_manager>>

\* on_created, lines 24-33, and file_path.exists() of line 39: the observer
\* thread dispatches the event of an entry its snapshot did not hold
OnCreatedBegin ==
    /\ is_running
    /\ watcher.callback = NoCallback
    /\ \E entry \in CreatedEntries :
          /\ entry.src_path \in seen \ noticed
          /\ noticed' = noticed \cup {entry.src_path}
          /\ watcher' =
                IF Filtered(entry)
                THEN [watcher EXCEPT !.delivered = @ \cup {Delivery(entry, "ignored")},
                                     !.duringPass = DuringPass(@)]
                ELSE [watcher EXCEPT !.callback =
                         [stage |-> "stat", src_path |-> entry.src_path,
                          existed |-> Exists(entry.src_path)]]
    /\ UNCHANGED <<now, rlVars, histVars, settings, files, failed, seen, queue,
                   is_running, pc, wf, pass>>
    /\ UNCHANGED <<remote, consumers, queue_manager>>

\* on_created, lines 43-52: event_loop is set and run_coroutine_threadsafe
\* does not raise (it raises RuntimeError on a closed loop, which line 50
\* catches)
CanSchedule == watcher.event_loop = "running"

\* on_created, lines 36-52: stat() when exists() was true, the FileEvent, and
\* run_coroutine_threadsafe; a stat() on a file that has gone raises out of
\* the callback
OnCreatedStat ==
    /\ watcher.callback.stage = "stat"
    /\ LET path == watcher.callback.src_path
           entry == Created(path, FALSE)
           event == FileEvent(path, IF watcher.callback.existed THEN files[path] ELSE 0)
       IN  IF watcher.callback.existed /\ ~Exists(path)
           THEN watcher' = [watcher EXCEPT
                               !.callback = NoCallback,
                               !.delivered = @ \cup {Delivery(entry, "raised")},
                               !.duringPass = DuringPass(@)]
           ELSE IF ~CanSchedule
           THEN watcher' = [watcher EXCEPT
                               !.callback = NoCallback,
                               !.delivered = @ \cup {Delivery(entry, "dropped")},
                               !.duringPass = DuringPass(@)]
           ELSE watcher' = [watcher EXCEPT
                               !.callback = AfterSchedule,
                               !.pending = Append(@, event),
                               !.scheduled = Append(@, event),
                               !.delivered = @ \cup {Delivery(entry, "scheduled")},
                               !.duringPass = DuringPass(@)]
    /\ UNCHANGED <<now, rlVars, histVars, settings, files, failed, seen, noticed,
                   queue, is_running, pc, wf, pass>>
    /\ UNCHANGED <<remote, consumers, queue_manager>>

\* _queue_file_event, lines 157-172: the event loop runs the oldest coroutine
\* handed over by call_soon_threadsafe
QueueFileEvent ==
    /\ watcher.event_loop = "running"
    /\ watcher.pending # <<>>
    /\ queue' = Enqueue(queue, Head(watcher.pending))
    /\ watcher' = [watcher EXCEPT !.pending = Tail(@)]
    /\ UNCHANGED <<now, rlVars, histVars, settings, files, failed, seen, noticed,
                   is_running, pc, wf, pass>>
    /\ UNCHANGED <<remote, consumers, queue_manager>>

\* get_file_events, line 186: yield file_event
YieldEvent ==
    /\ GetEventCore
    /\ watcher' = [watcher EXCEPT !.yielded = Append(@, Head(queue)),
                                  !.duringPass = 0]
    /\ UNCHANGED <<remote, consumers, queue_manager>>

\* the system running over a category directory that was empty at the
\* startup scan, with a configured publisher
InitBridge ==
    /\ now = StartTime
    /\ RLInit(WorkflowConfigs)
    /\ settings = [enable_conversion |-> FALSE, keep_original |-> FALSE,
                   analysis_enabled |-> FALSE, client_ready |-> TRUE]
    /\ files = <<>>
    /\ failed = <<>>
    /\ seen = {}
    /\ noticed = {}
    /\ queue = <<>>
    /\ is_running = TRUE
    /\ pc = "loop"
    /\ wf = NoWorkflow
    /\ pass = NoPass
    /\ watcher = NoWatcher
    /\ remote = NoRemote
    /\ consumers = <<>>
    /\ QueueManagerOff

NextBridge ==
    \/ EntryCreated
    \/ EntryRemoved
    \/ FileGrows
    \/ OnCreatedBegin
    \/ OnCreatedStat
    \/ QueueFileEvent
    \/ Stop
    \/ LoopTop
    \/ YieldEvent
    \/ GetTimeout
    \/ ValidateExists
    \/ ValidateFirstRead
    \/ ValidateSecondRead
    \/ ConvertIfNeeded
    \/ Admit
    \/ WaitSlot
    \/ Analyze
    \/ Publish
    \/ Record
    \/ Dispose
    \/ HandleWorkflowError

SpecBridge == InitBridge /\ [][NextBridge]_vars

(***************************************************************************)
(* The end of the process and the next start                               *)
(***************************************************************************)
\* main.py, line 160: asyncio.run returns once main has returned and the
\* consumer task has finished or been cancelled, and closes the loop; what
\* was handed to the loop and has not run never runs
RunReturns ==
    /\ ~is_running
    /\ pc \in {"done", "cancelled"}
    /\ watcher.event_loop = "running"
    /\ watcher' = [watcher EXCEPT !.event_loop = "closed"]
    /\ UNCHANGED <<now, rlVars, histVars, wfVars>>
    /\ UNCHANGED <<remote, consumers, queue_manager>>

\* the program is started again: TumblrUploadSystem.start builds new agents,
\* FileWatcherAgent._start_work sets the loop and starts observers whose
\* first snapshot holds what is in the directory, and _main_workflow begins
\* with its scan.  The directories and the clock are all that carries over.
Restart ==
    /\ watcher.event_loop = "closed"
    /\ UNCHANGED <<now, config, settings, files, failed, seen>>
    /\ last_upload_time' = 0
    /\ upload_times' = <<>>
    /\ hourly_uploads' = 0
    /\ current_hour' = HourOf(now)
    /\ daily_uploads' = 0
    /\ last_reset_date' = DateOf(now)
    /\ recorded' = <<>>
    /\ hourMarker' = AbsHourOf(now)
    /\ checkedDate' = DateOf(now)
    /\ last' = NoCall
    /\ slot' = "idle"
    /\ noticed' = seen
    /\ queue' = <<>>
    /\ is_running' = TRUE
    /\ pc' = "scan"
    /\ wf' = NoWorkflow
    /\ pass' = NoPass
    /\ watcher' = [NoWatcher EXCEPT !.delivered = watcher.delivered]
    /\ UNCHANGED <<remote, consumers, queue_manager>>

\* the watcher agent over the life of two processes; the events it queues
\* are left on the queue (the passes over them are the subject of SpecBridge)
NextRestart ==
    \/ EntryCreated
    \/ EntryRemoved
    \/ OnCreatedBegin
    \/ OnCreatedStat
    \/ QueueFileEvent
    \/ Stop
    \/ LoopTop
    \/ GetTimeout
    \/ MainExits
    \/ RunReturns
    \/ Restart
    \/ ScanExistingFiles

SpecRestart == InitBridge /\ [][NextRestart]_vars

(***************************************************************************)
(* start() and stop() of the orchestrator, and the consumer tasks          *)
(***************************************************************************)
\* the tasks that are inside get_file_events or inside a pass
Consuming == {i \in DOMAIN consumers : consumers[i] \in {"get", "admit", "publish"}}

\* BaseAgent.start of the orchestrator (base.py 42-58) with _start_work
\* (orchestrator.py 86-99): the sub-agents are started, which sets the
\* watcher's is_running again, and a new _main_workflow task is created
Start ==
    /\ ~is_running
    /\ Len(consumers) < MaxStarts
    /\ is_running' = TRUE
    /\ consumers' = Append(consumers, "scan")
    /\ UNCHANGED <<now, rlVars, histVars, settings, files, failed, seen, noticed,
                   queue, pc, wf, pass, watcher, remote, queue_manager>>

\* a watcher callback or the startup scan puts an event on file_event_queue,
\* the queue made once in FileWatcherAgent.__init__
EventQueued ==
    /\ Len(queue) < MaxSize
    /\ \E f \in UserFiles : queue' = Append(queue, FileEvent(f, 1))
    /\ UNCHANGED <<now, rlVars, histVars, settings, files, failed, seen, noticed,
                   is_running, pc, wf, pass, watcher, remote, consumers, queue_manager>>

\* one step of the task i of _main_workflow
TaskStep(i) ==
    /\ \/ /\ consumers[i] = "scan"
          /\ consumers' = [consumers EXCEPT ![i] = "loop"]
          /\ UNCHANGED <<queue, rlVars, histVars>>
       \/ /\ consumers[i] = "loop"
          /\ consumers' = [consumers EXCEPT ![i] = IF is_running THEN "get" ELSE "done"]
          /\ UNCHANGED <<queue, rlVars, histVars>>
       \/ /\ consumers[i] = "get"
          /\ queue = <<>>
          /\ consumers' = [consumers EXCEPT ![i] = "loop"]
          /\ UNCHANGED <<queue, rlVars, histVars>>
       \/ /\ consumers[i] = "get"
          /\ queue # <<>>
          /\ queue' = Tail(queue)
          /\ consumers' = [consumers EXCEPT ![i] = "admit"]
          /\ UNCHANGED <<rlVars, histVars>>
       \/ /\ consumers[i] = "admit"
          /\ ShouldAllowEffect
          /\ slot' = "idle"
          /\ consumers' = [consumers EXCEPT ![i] = "publish"]
          /\ UNCHANGED queue
       \/ /\ consumers[i] = "publish"
          /\ Len(recorded) < MaxUploads
          /\ RecordUploadEffect
          /\ slot' = "idle"
          /\ consumers' = [consumers EXCEPT ![i] = "loop"]
          /\ UNCHANGED queue
    /\ UNCHANGED <<now, settings, files, failed, seen, noticed, is_running, pc, wf,
                   pass, watcher, remote, queue_manager>>

TaskRuns == \E i \in DOMAIN consumers : TaskStep(i)

InitStartStop == now = StartTime /\ RLInit(ResetConfigs) /\ WorkflowOff /\ QueueManagerOff

NextStartStop ==
    \/ Start
    \/ Stop
    \/ EventQueued
    \/ TaskRuns

SpecStartStop == InitStartStop /\ [][NextStartStop]_vars

(***************************************************************************)
(* One file placed once, and every event that refers to it                 *)
(***************************************************************************)
\* one file is in the watched directory when the consumer starts; the
\* observer's first snapshot holds it, or was taken before the file was
\* placed, so that the startup scan and the observer both report it
InitOnce ==
    /\ now = StartTime
    /\ RLInit(WorkflowConfigs)
    /\ settings \in Settings
    /\ files \in {[n \in {f} |-> 1] : f \in UserFiles}
    /\ failed = <<>>
    /\ seen = UserFiles
    /\ noticed \in {DOMAIN files, {}}
    /\ queue = <<>>
    /\ is_running = TRUE
    /\ pc = "scan"
    /\ wf = NoWorkflow
    /\ pass = NoPass
    /\ watcher = NoWatcher
    /\ remote = NoRemote
    /\ consumers = <<>>
    /\ QueueManagerOff

NextOnce ==
    \/ FileGrows
    \/ OnCreated
    \/ ScanExistingFiles
    \/ Stop
    \/ LoopTop
    \/ GetEvent
    \/ GetTimeout
    \/ ValidateExists
    \/ ValidateFirstRead
    \/ ValidateSecondRead
    \/ ConvertIfNeeded
    \/ ConvertRaises
    \/ Admit
    \/ WaitSlot
    \/ Analyze
    \/ Publish
    \/ Record
    \/ Dispose
    \/ HandleWorkflowError

SpecOnce == InitOnce /\ [][NextOnce]_vars

(***************************************************************************)
(* The workflow without a stop signal, under fair scheduling               *)
(***************************************************************************)
\* the steps of the _main_workflow task: the event loop runs the task
\* whenever it is ready, every collaborator returns and every sleep ends
ConsumerSteps ==
    \/ ScanExistingFiles
    \/ LoopTop
    \/ GetEvent
    \/ GetTimeout
    \/ ValidateExists
    \/ ValidateFirstRead
    \/ ValidateSecondRead
    \/ ConvertIfNeeded
    \/ ConvertRaises
    \/ Admit
    \/ WaitSlot
    \/ Analyze
    \/ Publish
    \/ Record
    \/ Dispose
    \/ HandleWorkflowError

\* the files are those found at startup and the converted copies that the
\* observer reports; their writers may still be appending
NextLive ==
    \/ FileGrows
    \/ OnCreated
    \/ ConsumerSteps

\* as InitWF, with a publisher that is set up and captioning switched off
InitLive ==
    /\ now = StartTime
    /\ RLInit(WorkflowConfigs)
    /\ settings \in {s \in Settings : s.client_ready /\ ~s.analysis_enabled}
    /\ files \in InitialDirectories
    /\ failed = <<>>
    /\ seen = DOMAIN files
    /\ noticed = DOMAIN files
    /\ queue = <<>>
    /\ is_running = TRUE
    /\ pc = "scan"
    /\ wf = NoWorkflow
    /\ pass = NoPass
    /\ watcher = NoWatcher
    /\ remote = NoRemote
    /\ consumers = <<>>
    /\ QueueManagerOff

SpecLive == InitLive /\ [][NextLive]_vars /\ WF_vars(ConsumerSteps)

(***************************************************************************)
(* FileManagementAgent.move_to_failed on its own                           *)
(***************************************************************************)
\* the files move_to_failed is called with
MovePaths == {FileName("a", ".jpg"), FileName("a_1", ".jpg"), FileName("b", ".jpg")}
\* the names that failed/<category>/ may hold from earlier runs
FailedNames ==
    {FileName("a", ".jpg"), FileName("a_1", ".jpg"), FileName("a_2", ".jpg"),
     FileName("b", ".jpg")}
\* where an entry left by an earlier run came from
Earlier == FileName("earlier", "")

\* move_to_failed(file_path, category, reason)
MoveToFailedCall ==
    /\ \E path \in MovePaths :
          /\ files' = MoveToFailed(path).files
          /\ failed' = MoveToFailed(path).failed
    /\ UNCHANGED <<now, rlVars, histVars, settings, seen, noticed, queue,
                   is_running, pc, wf, pass, watcher, remote, consumers, queue_manager>>

InitMove ==
    /\ now = StartTime
    /\ RLInit(ResetConfigs)
    /\ settings = [enable_conversion |-> FALSE, keep_original |-> FALSE,
                   analysis_enabled |-> FALSE, client_ready |-> FALSE]
    /\ files \in {[n \in S |-> 1] : S \in SUBSET MovePaths}
    /\ failed \in {[n \in S |-> Earlier] : S \in SUBSET FailedNames}
    /\ seen = DOMAIN files
    /\ noticed = DOMAIN files
    /\ queue = <<>>
    /\ is_running = FALSE
    /\ pc = "off"
    /\ wf = NoWorkflow
    /\ pass = NoPass
    /\ watcher = NoWatcher
    /\ remote = NoRemote
    /\ consumers = <<>>
    /\ QueueManagerOff

NextMove == MoveToFailedCall

SpecMove == InitMove /\ [][NextMove]_vars

(***************************************************************************)
(* TumblrPublishingAgent.publish_post on its own                           *)
(***************************************************************************)
\* publish_post(request): _publish_post_impl returns its UploadResult
PublishPost ==
    /\ remote.file_path # NoPath
    /\ ~remote.returned
    /\ \E result \in PublishPostImpl(remote.file_path, remote.reply) :
          remote' = [remote EXCEPT !.returned = TRUE, !.result = result]
    /\ UNCHANGED <<now, rlVars, histVars, wfVars, watcher, consumers, queue_manager>>

InitPublish ==
    /\ now = StartTime
    /\ RLInit(ResetConfigs)
    /\ settings \in {[enable_conversion |-> FALSE, keep_original |-> FALSE,
                      analysis_enabled |-> FALSE, client_ready |-> ready] :
                        ready \in BOOLEAN}
    /\ files \in {<<>>, [n \in {FileName("a", ".jpg")} |-> 1]}
    /\ failed = <<>>
    /\ seen = DOMAIN files
    /\ noticed = DOMAIN files
    /\ queue = <<>>
    /\ is_running = FALSE
    /\ pc = "off"
    /\ wf = NoWorkflow
    /\ pass = NoPass
    /\ watcher = NoWatcher
    /\ remote \in {[NoRemote EXCEPT !.file_path = FileName("a", ".jpg"), !.reply = r] :
                      r \in Replies}
    /\ consumers = <<>>
    /\ QueueManagerOff

NextPublish == PublishPost

SpecPublish == InitPublish /\ [][NextPublish]_vars

\* C14: when the readiness validator rejects an event (file missing, size
\* differing between the two checks, stat error) the pass ends there: no
\* conversion, admission check, wait, publish or record_upload, no delete or
\* move, no lifecycle event, and the file stays where it is.
C14_RejectionHasNoEffect ==
    /\ [](pass.outcome = "rejected" =>
             /\ pc \in {"loop", "get", "done"}
             /\ pass.steps = <<>>
             /\ pass.events = <<>>
             /\ pass.publishCalls = 0
             /\ pass.recordCalls = 0
             /\ pass.moved = NoPath
             /\ wf.converted_file_path = NoPath
             /\ LimiterCounters = pass.before)
    /\ [][(pass.outcome = "running" /\ pass'.outcome = "rejected") =>
             /\ files' = files
             /\ failed' = failed
             /\ UNCHANGED <<now, rlVars>>]_vars

\* an event was rejected because the size changed between the two re-checks,
\* and its file is still in the watched directory
C14_Witness ==
    /\ pass.outcome = "rejected"
    /\ wf.current_size # 0
    /\ Exists(pass.detected)

\* C15: at most one pass is in flight: the consumer starts the next pass only
\* after the one before it has ended, also while that pass is suspended in a
\* settle delay, a rate-limit wait or collaborator I/O, so no admission
\* check / record_upload pair of one pass is interleaved with another pass.
C15_OnePassAtATime ==
    /\ pass.previous # "running"
    /\ (pass.outcome = "running" /\ pass.recordCalls = 0) =>
          LimiterCounters = pass.before

\* a pass is suspended in its rate-limit wait after an earlier pass has
\* ended, while the next event is already on the queue
C15_Witness ==
    /\ pc = "wait"
    /\ pass.outcome = "running"
    /\ pass.previous \in {"success", "failure"}
    /\ queue # <<>>

\* C16: after the stop signal the consumer starts no new pass: an event that
\* is dequeued after stop is not handed to the workflow.
C16_NoPassStartsAfterStop ==
    [][(pc = "get" /\ pc' = "validate") => is_running]_vars

\* the watcher has been stopped while the consumer is inside its 1-second
\* poll of the queue, and an event is there to be dequeued
C16_Witness ==
    /\ ~is_running
    /\ pc = "get"
    /\ queue # <<>>

\* C16, the part the generator does keep: once stopped, the top of the poll
\* loop is passed only towards the exit
C16_LoopTopExitsAfterStop ==
    [][(pc = "loop" /\ ~is_running /\ pc' # pc) => pc' = "done"]_vars

\* C17: a pass that is in flight when the stop signal arrives runs to its end
\* (terminal disposition or rejection) and is not aborted mid-step, through
\* TumblrUploadSystem.stop, run_forever and the exit of main.
C17_InFlightPassRunsToEnd == pass.outcome # "aborted"

\* the process has gone down with a pass cut off after its conversion: the
\* converted copy is on disk and nothing was published or disposed
C17_Witness ==
    /\ pc = "cancelled"
    /\ pass.outcome = "aborted"
    /\ "converted" \in StepsTaken
    /\ pass.publishCalls = 0

\* C18: the events of one watcher thread are yielded by get_file_events in the
\* order in which their on_created callbacks ran, and every event put on the
\* queue is yielded exactly once: none skipped, none duplicated.
C18_YieldedInCallbackOrder ==
    watcher.scheduled = watcher.yielded \o queue \o watcher.pending

\* both images have been yielded, the one created second first because its
\* callback ran first
C18_Witness ==
    /\ Len(watcher.yielded) = 2
    /\ watcher.yielded[1].file_path = FileName("c", ".JPG")

\* C19: on_created never waits for the consumer: it schedules the enqueue and
\* returns, so the watcher thread can run its callbacks wherever the consumer
\* is suspended, any number of them during one pass.
C19_CallbackNeverWaits ==
    /\ watcher.callback.stage # "waiting"
    /\ watcher.callback.stage = "stat" => ENABLED OnCreatedStat
    /\ (/\ is_running
        /\ watcher.callback = NoCallback
        /\ \E entry \in CreatedEntries : entry.src_path \in seen \ noticed)
          => ENABLED OnCreatedBegin

\* two notifications have been delivered during the pass the consumer is
\* suspended in, and an event scheduled by one of them waits for the loop
C19_Witness ==
    /\ pc \in SuspensionPoints \ {"get"}
    /\ pass.outcome = "running"
    /\ watcher.duringPass >= 2
    /\ watcher.pending # <<>>

\* the events scheduled for a path
ScheduledFor(path) ==
    {k \in DOMAIN watcher.scheduled : watcher.scheduled[k].file_path = path}

\* C20: on_created enqueues nothing for a directory or for a file whose
\* lower-cased extension is not in file_extensions; for every other created
\* file it schedules exactly one FileEvent carrying the size read at detection.
C20_OneEventPerCreatedFile ==
    \A call \in watcher.delivered :
        IF call.is_directory \/ Lower(call.src_path.ext) \notin FileExtensions
        THEN ScheduledFor(call.src_path) = {}
        ELSE /\ Cardinality(ScheduledFor(call.src_path)) = 1
             /\ \A k \in ScheduledFor(call.src_path) :
                   watcher.scheduled[k].file_size = call.size

\* on_created has returned for an image file without scheduling anything
C20_Witness ==
    \E call \in watcher.delivered :
        /\ call.result = "raised"
        /\ ScheduledFor(call.src_path) = {}

\* C20, without the file that goes away between exists() and stat(): nothing
\* is scheduled for a directory or a suffix outside the allow-list, and a call
\* that gets as far as scheduling schedules one event with the size it read
C20_FilterAndSize ==
    \A call \in watcher.delivered :
        /\ (call.is_directory \/ Lower(call.src_path.ext) \notin FileExtensions)
             => call.result = "ignored" /\ ScheduledFor(call.src_path) = {}
        /\ call.result = "scheduled" =>
             /\ Cardinality(ScheduledFor(call.src_path)) = 1
             /\ \A k \in ScheduledFor(call.src_path) :
                   watcher.scheduled[k].file_size = call.size

\* the files for which on_created returned without scheduling anything
\* because scheduling was impossible
Dropped == {call.src_path : call \in {c \in watcher.delivered : c.result = "dropped"}}

\* C21: a notification that arrives when scheduling is impossible (no event
\* loop, or scheduling raises) is dropped: nothing is enqueued, the callback
\* returns normally without raising into the watcher thread, and a later
\* scan_existing_files enqueues the file if it is still in its directory.
C21_DroppedWithoutRaising ==
    /\ [](\A call \in watcher.delivered :
            (call.event_loop # "running" /\ ~Filtered(call)) =>
                /\ call.result = "dropped"
                /\ ScheduledFor(call.src_path) = {})
    /\ [][(pc = "scan" /\ pc' = "loop") =>
            \A path \in Dropped :
                Exists(path) => \E i \in DOMAIN queue' : queue'[i].file_path = path]_vars

\* with the loop closed, on_created has raised into the watcher thread
C21_Witness ==
    \E call \in watcher.delivered :
        /\ call.event_loop = "closed"
        /\ call.result = "raised"

\* C21, for a file that stays where it is while on_created runs: the
\* callback returns with nothing scheduled, and the scan of the next start
\* enqueues every dropped file that is still there
C21_DroppedThenRescanned ==
    /\ [](\A call \in watcher.delivered :
            (call.event_loop # "running" /\ ~Filtered(call) /\ call.result # "raised") =>
                /\ call.result = "dropped"
                /\ ScheduledFor(call.src_path) = {})
    /\ [][(pc = "scan" /\ pc' = "loop") =>
            \A path \in Dropped :
                Exists(path) => \E i \in DOMAIN queue' : queue'[i].file_path = path]_vars

\* a file whose notification was dropped is on the queue after a restart
C21_RescannedWitness ==
    \E path \in Dropped : \E i \in DOMAIN queue : queue[i].file_path = path

(***************************************************************************)
(* Properties of the rate limiter, continued                               *)
(***************************************************************************)
\* the remaining durations of the constraints violated at the instant of a
\* call, the hourly constraint being taken on the stored counter (stored) or
\* on the counter a check would see after its reset at an hour change
RemainingDurations(hourViolated) ==
    (IF DelayConstraintViolated
     THEN {config.upload_delay - (now - recorded[Len(recorded)])} ELSE {})
    \cup (IF BurstConstraintViolated
          THEN {BurstWindow - (now - recorded[Len(recorded) - config.burst_limit + 1])}
          ELSE {})
    \cup (IF hourViolated THEN {SecondsToNextHour(now)} ELSE {})
    \cup (IF DayConstraintViolated THEN {SecondsToNextDay(now)} ELSE {})

LongestRemaining(hourViolated) ==
    IF RemainingDurations(hourViolated) = {} THEN 0
    ELSE Max(RemainingDurations(hourViolated))

JustEstimated == last.op = "get_estimated_wait_time"

\* C22: _calculate_wait_time returns the maximum (not the sum) of the
\* remaining durations of the constraints violated at call time, and zero
\* when no constraint is violated.
C22_WaitIsLongestRemaining ==
    JustEstimated =>
        /\ last.wait = LongestRemaining(HourlyLimitReached(now))
        /\ ShouldAllowResult(now) = "True" => last.wait = 0

\* a wait is reported although a check at the same instant admits the upload
C22_Witness ==
    /\ JustEstimated
    /\ ShouldAllowResult(now) = "True"
    /\ last.wait > 0

\* C22 on the stored counters: the value returned is the maximum of the
\* remaining durations, never their sum, and zero when there are none
C22_MaxOverStoredCounters ==
    JustEstimated => last.wait = LongestRemaining(HourConstraintViolated)

\* two constraints are violated at once and the longer one is returned
C22_MaxNotSumWitness ==
    /\ JustEstimated
    /\ Cardinality(RemainingDurations(HourConstraintViolated)) >= 2
    /\ last.wait = Max(RemainingDurations(HourConstraintViolated))

\* C23: should_allow_upload is a pure check: whatever it returns,
\* last_upload_time, the burst window and the hourly and daily counters with
\* their markers are the same after the call as before it.
C23_CheckHasNoSideEffect ==
    [][last'.op = "should_allow_upload" =>
          UNCHANGED <<last_upload_time, upload_times, hourly_uploads, current_hour,
                      daily_uploads, last_reset_date>>]_vars

\* a check has set a non-zero hourly counter back to zero
C23_Witness ==
    /\ JustChecked
    /\ last.hourlyBefore > 0
    /\ hourly_uploads = 0

\* C23, apart from the hourly counter and its marker: a check leaves
\* last_upload_time, the burst window and the daily counter with its marker
\* alone, and touches the hourly pair only when the hour of the day differs
\* from the marker
C23_OnlyTheHourlyReset ==
    [][last'.op = "should_allow_upload" =>
          /\ UNCHANGED <<last_upload_time, upload_times, daily_uploads, last_reset_date>>
          /\ HourOf(now) = current_hour => UNCHANGED <<hourly_uploads, current_hour>>]_vars

\* the newest n entries of q
Newest(q, n) == IF Len(q) > n THEN SubSeq(q, Len(q) - n + 1, Len(q)) ELSE q

\* C24: record_upload unconditionally adds one to the hourly and to the daily
\* counter, sets last_upload_time to the current time and appends the current
\* time to the burst window, whose length never exceeds burst_limit (the
\* oldest entry is dropped when it is full); it changes nothing else.
C24_RecordUploadEffect ==
    /\ [](Len(upload_times) <= config.burst_limit)
    /\ [][last'.op = "record_upload" =>
            /\ hourly_uploads' = hourly_uploads + 1
            /\ daily_uploads' = daily_uploads + 1
            /\ last_upload_time' = now
            /\ upload_times' = Newest(Append(upload_times, now), config.burst_limit)
            /\ UNCHANGED <<now, config, current_hour, last_reset_date>>]_vars

\* an upload has been recorded into a full window, whose oldest entry went
C24_Witness ==
    /\ last.op = "record_upload"
    /\ Len(recorded) > config.burst_limit
    /\ Len(upload_times) = config.burst_limit
    /\ upload_times[Len(upload_times)] = now
    /\ upload_times[1] # recorded[1]

\* C25: in every reachable state of the rate limiter, after any interleaving
\* of should_allow_upload, record_upload, wait-time computation, periodic
\* cleanup and reset_counters, hourly_uploads and daily_uploads are not
\* negative, and they change only by +1 in record_upload or by being set to
\* zero in a reset.
C25_CountersStepOrReset ==
    /\ [](hourly_uploads >= 0 /\ daily_uploads >= 0)
    /\ [][/\ hourly_uploads' # hourly_uploads =>
               \/ hourly_uploads' = hourly_uploads + 1 /\ last'.op = "record_upload"
               \/ hourly_uploads' = 0 /\ last'.op \in {"should_allow_upload", "reset_counters"}
          /\ daily_uploads' # daily_uploads =>
               \/ daily_uploads' = daily_uploads + 1 /\ last'.op = "record_upload"
               \/ daily_uploads' = 0 /\ last'.op = "reset_counters"]_vars

\* reset_counters has set both counters to zero, after a check had already
\* reset the hourly one at an hour change and an upload was recorded since
C25_Witness ==
    /\ last.op = "reset_counters"
    /\ last.dailyBefore > last.hourlyBefore
    /\ last.hourlyBefore > 0
    /\ hourly_uploads = 0
    /\ daily_uploads = 0

\* C26: with burst_limit = 2 and upload_delay = 0, after two uploads recorded
\* in quick succession the check for a third file within the same 60-second
\* window returns False; once more than 60 seconds have passed since the
\* first recorded upload, with nothing else recorded, it returns True.
C26_ThirdUploadWaitsForTheWindow ==
    (JustChecked /\ Len(recorded) = 2 /\ recorded[2] - recorded[1] < BurstWindow) =>
        /\ now - recorded[1] < BurstWindow => last.ret = "False"
        /\ now - recorded[1] > BurstWindow => last.ret = "True"

\* the third check is admitted two minutes after the first of two uploads
\* that were recorded three seconds apart
C26_Witness ==
    /\ JustChecked
    /\ Len(recorded) = 2
    /\ recorded[2] - recorded[1] = 3
    /\ now - recorded[1] > BurstWindow
    /\ last.ret = "True"

\* the third check is denied inside the window of the first upload
C26_DeniedWitness ==
    /\ JustChecked
    /\ Len(recorded) = 2
    /\ now - recorded[1] < BurstWindow
    /\ last.ret = "False"

\* <stem>_<k><suffix>
Suffixed(path, k) == FileName(path.stem \o "_" \o ToString(k), path.ext)

\* the name the claim gives the moved file: the original name if it is free,
\* otherwise the suffixed name with the smallest k >= 1 that is free
FreeName(path, d) ==
    IF path \notin DOMAIN failed THEN d = path
    ELSE \E k \in 1..Cardinality(DOMAIN failed) :
            /\ d = Suffixed(path, k)
            /\ d \notin DOMAIN failed
            /\ \A j \in 1..(k - 1) : Suffixed(path, j) \in DOMAIN failed

\* C27: move_to_failed never overwrites a file already in failed/<category>/:
\* the destination is the original name if it is free, otherwise
\* <stem>_<k><suffix> for the smallest k >= 1 whose name is free; on success
\* the failed tree gains exactly one entry and every file that was there
\* before is unchanged.
C27_MoveNeverOverwrites ==
    [][files' # files =>
          \E path \in DOMAIN files :
              /\ files' = Without(files, path)
              /\ \E d \in DOMAIN failed' :
                    /\ FreeName(path, d)
                    /\ DOMAIN failed' = DOMAIN failed \cup {d}
                    /\ failed'[d] = path
                    /\ \A n \in DOMAIN failed : failed'[n] = failed[n]]_vars

\* a.jpg has been moved in beside a.jpg and a_1.jpg of earlier runs, as a_2.jpg
C27_Witness ==
    /\ FileName("a", ".jpg") \in DOMAIN failed
    /\ failed[FileName("a", ".jpg")] = Earlier
    /\ FileName("a_1", ".jpg") \in DOMAIN failed
    /\ failed[FileName("a_1", ".jpg")] = Earlier
    /\ FileName("a_2", ".jpg") \in DOMAIN failed
    /\ failed[FileName("a_2", ".jpg")] = FileName("a", ".jpg")

\* the publisher has returned a permission-error classification and step 7
\* is about to run
PermissionErrorReturned ==
    pc = "dispose" /\ ~wf.success /\ wf.error_type = "permission_error"

\* C28: when the publisher returns a permission-error classification, after
\* the pass the detected file is found under failed/<category>/, it has been
\* moved there and not deleted, and an upload-failed event carrying the error
\* kind permission_error has been emitted.
C28_PermissionErrorMovesToFailed ==
    /\ [][(PermissionErrorReturned /\ pc' # "dispose") =>
            /\ Exists(pass.detected)
            /\ \E d \in DOMAIN failed' \ DOMAIN failed :
                  /\ failed'[d] = pass.detected
                  /\ DOMAIN failed' = DOMAIN failed \cup {d}
            /\ pass'.outcome = "failure"
            /\ pass'.events =
                  <<[type |-> "upload_failed", file_path |-> pass.detected,
                     error_message |-> wf.error_message,
                     error_type |-> "permission_error",
                     was_converted |-> wf.converted_file_path # NoPath]>>]_vars
    /\ []((pass.outcome = "failure" /\ wf.error_type = "permission_error") =>
            /\ InFailedTree(pass.detected)
            /\ ~Exists(pass.detected)
            /\ \E i \in DOMAIN pass.events :
                  /\ pass.events[i].type = "upload_failed"
                  /\ pass.events[i].error_type = "permission_error")

\* a pass over an unconverted file ended with a permission error and the file
\* is under its own name in the failed tree
C28_Witness ==
    /\ pass.outcome = "failure"
    /\ wf.error_type = "permission_error"
    /\ ~WasConverted
    /\ pass.detected \in DOMAIN failed
    /\ failed[pass.detected] = pass.detected
    /\ ~Exists(pass.detected)
    /\ pass.events[1].error_type = "permission_error"

\* the pass has called analyze_image
Analyzed == \E i \in DOMAIN pass.steps : pass.steps[i] = "analyzed"

\* C29: no outcome of the captioning step changes whether the upload is
\* attempted: with a description, with an in-band error or with captioning
\* disabled the pass goes on to the publisher, calls it exactly once, and ends
\* as the publish result says; without a description the request has no
\* caption.
C29_CaptioningNeverStopsTheUpload ==
    /\ [][(pc = "analyze" /\ pc' # "analyze") =>
            /\ pc' = "publish"
            /\ pass'.publishCalls = 0
            /\ wf'.caption \in {"described", "none"}
            /\ wf'.caption = "described" => settings.analysis_enabled
            /\ ~settings.analysis_enabled => ~Analyzed' /\ wf'.caption = "none"]_vars
    /\ [][(pc = "publish" /\ pc' # "publish") =>
            /\ pass'.publishCalls = 1
            /\ wf'.caption = wf.caption]_vars
    /\ [](pc \in {"record", "dispose"} => pass.publishCalls = 1)
    /\ []((PassEnded /\ pass.publishCalls > 0) =>
            /\ pass.publishCalls = 1
            /\ pass.outcome = IF wf.success THEN "success" ELSE "failure")

\* captioning was enabled and returned no description, and the file was
\* published without a caption
C29_Witness ==
    /\ pass.outcome = "success"
    /\ settings.analysis_enabled
    /\ Analyzed
    /\ wf.caption = "none"
    /\ pass.publishCalls = 1

\* a pass with a description and a pass with captioning disabled both ended
\* with a failed publish
C29_OtherCasesWitness ==
    /\ pass.outcome = "failure"
    /\ pass.publishCalls = 1
    /\ \/ Analyzed /\ wf.caption = "described"
       \/ ~settings.analysis_enabled

\* the error kinds an UploadResult can carry
ErrorKinds ==
    {"configuration_error", "file_error", "authentication_error",
     "permission_error", "rate_limit_error", "server_error", "client_error",
     "network_error", "unknown_error", "api_error", "no_response"}

\* the error kind the claim gives a remote status
KindOfStatus(status) ==
    IF status = 401 THEN "authentication_error"
    ELSE IF status = 403 THEN "permission_error"
    ELSE IF status = 429 THEN "rate_limit_error"
    ELSE IF status >= 500 THEN "server_error"
    ELSE "client_error"

\* create_photo_post was called and the publish failed
FailedAtTheRemote ==
    /\ remote.returned
    /\ ~remote.result.success
    /\ settings.client_ready
    /\ Exists(remote.file_path)

\* C30: every failed publish result carries one error kind of a fixed set;
\* remote status 401 maps to authentication_error, 403 to permission_error,
\* 429 to rate_limit_error, any status >= 500 to server_error, any other
\* status >= 400 to client_error, a transport exception to network_error and
\* any other exception to unknown_error.
C30_StatusDeterminesKind ==
    /\ (remote.returned /\ ~remote.result.success) =>
          remote.result.error_type \in ErrorKinds
    /\ FailedAtTheRemote =>
          /\ remote.reply.kind = "transport_exception" =>
                remote.result.error_type = "network_error"
          /\ remote.reply.kind = "other_exception" =>
                remote.result.error_type = "unknown_error"
          /\ remote.reply.status >= 400 =>
                remote.result.error_type = KindOfStatus(remote.reply.status)

\* the remote answered 503 with a body that is not JSON and the result says
\* network_error
C30_Witness ==
    /\ FailedAtTheRemote
    /\ remote.reply.kind = "not_json"
    /\ remote.reply.status = 503
    /\ remote.result.error_type = "network_error"

\* what holds of C30: the kind is one of the fixed set, a status that arrives
\* in meta.status of a JSON body is classified as the claim says, an exception
\* of requests gives network_error and every other exception unknown_error
C30_ReportedStatusDeterminesKind ==
    /\ (remote.returned /\ ~remote.result.success) =>
          remote.result.error_type \in ErrorKinds
    /\ FailedAtTheRemote =>
          /\ remote.reply.kind = "transport_exception" =>
                remote.result.error_type = "network_error"
          /\ remote.reply.kind = "other_exception" =>
                remote.result.error_type = "unknown_error"
          /\ (remote.reply.kind = "envelope" /\ remote.reply.status >= 400) =>
                remote.result.error_type = KindOfStatus(remote.reply.status)
          /\ remote.reply.kind = "not_json" =>
                remote.result.error_type \in {"network_error", "unknown_error"}
          /\ remote.reply.kind \in {"no_meta", "empty"} =>
                remote.result.error_type \in {"api_error", "no_response"}

\* the remote answered 403 inside the envelope
C30_ReportedWitness ==
    /\ FailedAtTheRemote
    /\ remote.reply = Envelope(403, FALSE)
    /\ remote.result.error_type = "permission_error"

(***************************************************************************)
(* Properties of the limiter under the orchestrator                        *)
(***************************************************************************)
\* the uploads recorded within the wall-clock hour h
RecordedInHour(h) == {i \in DOMAIN recorded : AbsHourOf(recorded[i]) = h}

\* C31: driven by the orchestrator (check, optional wait_for_next_slot,
\* publish, record_upload, no re-check after the wait), the number of publish
\* attempts recorded within any single wall-clock hour never exceeds
\* max_uploads_per_hour.
C31_HourlyCapHolds ==
    \A i \in DOMAIN recorded :
        Cardinality(RecordedInHour(AbsHourOf(recorded[i]))) <= config.max_uploads_per_hour

\* hourly maximum 1: the second pass is denied at 10:58, waits for 11:00 and
\* records there with the counter of the hour before; the check of the third
\* pass resets that counter, and a second upload is recorded in the same hour
C31_Witness ==
    /\ config.max_uploads_per_hour = 1
    /\ recorded = <<StartTime, StartTime + 120, StartTime + 120>>
    /\ Cardinality(RecordedInHour(AbsHourOf(StartTime + 120))) = 2

\* C32: after any sequence of start() and stop() calls on the orchestrator, at
\* most one _main_workflow loop is consuming from the file event queue, so
\* the checks and records of the rate limiter are never interleaved by two
\* consumers.
C32_AtMostOneConsumer ==
    /\ Cardinality(Consuming) <= 1
    /\ Cardinality({i \in DOMAIN consumers : consumers[i] = "publish"}) <= 1

\* stop followed by start while the first task was suspended: both tasks have
\* taken an event and passed the admission check before either has recorded
C32_Witness ==
    /\ Len(consumers) = 2
    /\ consumers[1] = "publish"
    /\ consumers[2] = "publish"
    /\ recorded = <<>>

(***************************************************************************)
(* Properties of one file and its events                                   *)
(***************************************************************************)
\* the calls of publish_post so far: every returned call is recorded by line
\* 248, and one call may have returned and not been recorded yet
PublishCalls == Len(recorded) + (IF pc = "record" THEN 1 ELSE 0)

\* C33: a file placed once in a watched directory is handed to the publisher
\* at most once, whatever events refer to it or to its converted artifact: a
\* duplicate event for the same path and the notification for the converted
\* file end at validation without a second publish.
C33_PublishedAtMostOnce == PublishCalls <= 1

\* the original was kept after a successful upload of its converted copy, and
\* the second event for it has led to a second publish
C33_Witness ==
    /\ PublishCalls = 2
    /\ settings.keep_original
    /\ WasConverted
    /\ pass.previous = "success"

\* what holds of C33: when no original is kept after a conversion, the file
\* is handed to the publisher at most once, and a pass that follows a pass
\* which published ends at validation
C33_OnceUnlessOriginalKept ==
    ~(settings.enable_conversion /\ settings.keep_original) =>
        /\ PublishCalls <= 1
        /\ pass.previous \in {"success", "failure"} =>
              /\ pass.outcome \in {"running", "rejected"}
              /\ pass.publishCalls = 0

\* the duplicate event and the event for the converted file were both
\* rejected after the upload
C33_RejectedWitness ==
    /\ ~settings.keep_original
    /\ settings.enable_conversion
    /\ Len(recorded) = 1
    /\ pass.outcome = "rejected"
    /\ pass.previous = "rejected"
    /\ queue = <<>>
    /\ noticed = seen

(***************************************************************************)
(* Properties of the burst window                                          *)
(***************************************************************************)
\* lines 97-105 at time t: the decision taken from the deque
BurstDecision(t) ==
    IF BurstWindowFull /\ Len(upload_times) = 0 THEN "raise"
    ELSE IF BurstActive(t) THEN "deny"
    ELSE "allow"

\* the decision of a limiter that keeps every upload time and denies exactly
\* when at least burst_limit uploads lie in the trailing 60 seconds
ReferenceDecision == IF BurstConstraintViolated THEN "deny" ELSE "allow"

\* C34: for every interleaving of record_upload, should_allow_upload and
\* _cleanup_old_data the burst decision taken from the bounded deque equals
\* the decision of the reference limiter over all upload times, also with
\* burst_limit = 0, where the check returns a decision and does not fail.
C34_DequeDecidesAsReference ==
    /\ BurstDecision(now) = ReferenceDecision
    /\ JustChecked => last.ret \in {"True", "False"}
    /\ JustChecked => (last.ret = "False" <=> ReferenceDecision = "deny")

\* burst_limit = 0: should_allow_upload has raised
C34_Witness ==
    /\ config.burst_limit = 0
    /\ JustChecked
    /\ last.ret = "raise"
    /\ ReferenceDecision = "deny"

\* what holds of C34: with a burst_limit of one or more the two decisions are
\* the same in every state, and every check returns the reference's decision
C34_EqualForPositiveLimit ==
    config.burst_limit >= 1 =>
        /\ BurstDecision(now) = ReferenceDecision
        /\ JustChecked => (last.ret = "False" <=> ReferenceDecision = "deny")
        /\ JustChecked => (last.ret = "True" <=> ReferenceDecision = "allow")

\* three uploads at two instants with a window of two: the deque has dropped
\* the first, and the check denies as the reference does
C34_PositiveWitness ==
    /\ config.burst_limit = 2
    /\ Len(recorded) = 3
    /\ JustChecked
    /\ last.ret = "False"
    /\ recorded[1] # recorded[2]

(***************************************************************************)
(* Properties of the limiter under the orchestrator, continued             *)
(***************************************************************************)
\* C35: driven by the orchestrator's single consumer, any two consecutive
\* recorded uploads are at least upload_delay seconds apart, and any
\* burst_limit + 1 consecutive recorded uploads span at least 60 seconds,
\* whether the later upload was admitted directly or after wait_for_next_slot.
C35_RecordedUploadsAreSpaced ==
    /\ \A i \in DOMAIN recorded :
          (i + 1) \in DOMAIN recorded =>
              recorded[i + 1] - recorded[i] >= config.upload_delay
    /\ \A i \in DOMAIN recorded :
          (i + config.burst_limit) \in DOMAIN recorded =>
              recorded[i + config.burst_limit] - recorded[i] >= BurstWindow

\* the third upload was denied by the burst window and the delay, waited, and
\* was recorded exactly when the window of the first upload ended
C35_Witness ==
    /\ config.burst_limit = 2
    /\ config.upload_delay = 5
    /\ Len(recorded) = 3
    /\ recorded[3] - recorded[1] = BurstWindow
    /\ pc = "dispose"
    /\ \E i \in DOMAIN pass.steps : pass.steps[i] = "waited"

\* an upload admitted directly, the delay after the one before
C35_DirectWitness ==
    /\ Len(recorded) = 2
    /\ pc = "dispose"
    /\ \A i \in DOMAIN pass.steps : pass.steps[i] # "waited"
    /\ recorded[2] - recorded[1] = BurstWindow
    /\ config.burst_limit = 1

(***************************************************************************)
(* Liveness of the workflow                                                *)
(***************************************************************************)
\* the paths an event can carry: the users' files and the converted copy
\* written beside a file that has the name of the first candidate
EventPaths == UserFiles \cup {FileName("a_converted_1", ".jpg")}

\* an event for the path is waiting on the queue
Queued(path) == \E i \in DOMAIN queue : queue[i].file_path = path

\* the pass over an event for the path has ended: rejected by validation,
\* cleaned up after a successful publish, or moved to the failed tree
Terminated(path) ==
    /\ pass.detected = path
    /\ pass.outcome \in {"rejected", "success", "failure", "error"}

\* C36: under fair scheduling, with collaborators that return and no stop
\* signal, every event put on the queue is eventually dequeued and its pass
\* ends rejected, cleaned up or moved to failed; a pass denied admission is
\* suspended for a finite time and then publishes, so the queue behind it
\* is served.
C36_EveryEventIsServed ==
    /\ \A path \in EventPaths : Queued(path) ~> Terminated(path)
    /\ (pc = "wait") ~> (pc = "record" /\ pass.publishCalls = 1)
    /\ (pc = "wait" /\ queue # <<>>) ~> (queue = <<>>)

\* a pass is suspended by the rate limiter while another event waits behind it
C36_Witness ==
    /\ pc = "wait"
    /\ queue # <<>>
    /\ pass.outcome = "running"

\* C37: whenever get_rate_limit_status is asked, its can_upload_now flag is the
\* decision that should_allow_upload would return at that same moment.
JustAsked == last.op = "get_rate_limit_status"
C37_FlagEqualsDecision == JustAsked => last.ret = ShouldAllowResult(now)
\* one upload recorded, and a minute later the window of one is still counted
\* as full by the status while the check admits
C37_Witness ==
    /\ JustAsked
    /\ last.ret = "False"
    /\ ShouldAllowResult(now) = "True"
    /\ config.burst_limit = 1
    /\ upload_times = <<StartTime>>
    /\ now = StartTime + 60
\* the flag errs on one side only: when it is set, the check admits
C37_FlagImpliesDecision ==
    (JustAsked /\ last.ret = "True") => ShouldAllowResult(now) = "True"
C37_FlagSetWitness ==
    JustAsked /\ last.ret = "True" /\ recorded # <<>>
\* the flag is also unset after an hour change that the check would pass
C37_StaleHourWitness ==
    /\ JustAsked
    /\ last.ret = "False"
    /\ ShouldAllowResult(now) = "True"
    /\ HourlyRemaining = 0
    /\ BurstRemaining > 0

\* C38: the queue manager replenishes only below min_queue_threshold; the
\* quotas of the n staging categories sum to needed = target_queue_size -
\* current and differ pairwise by at most one; no more than needed files are
\* moved, and the queue is not above target_queue_size after the replenish.
C38_ReplenishFillsUpToTarget ==
    LET check == queue_manager.check
    IN  /\ check.replenished => check.before < queue_manager.min_queue_threshold
        /\ check.quotas # <<>> =>
              /\ check.replenished
              /\ check.needed = queue_manager.target_queue_size - check.before
              /\ check.needed > 0
              /\ SumOf(check.quotas) = check.needed
              /\ \A i, j \in DOMAIN check.quotas :
                    check.quotas[i] - check.quotas[j] <= 1
              /\ check.moved <= check.needed
              /\ check.after <= queue_manager.target_queue_size
\* five files are needed from three categories and all five are moved
C38_Witness ==
    /\ queue_manager.check.replenished
    /\ queue_manager.check.before = 0
    /\ queue_manager.check.quotas = <<2, 2, 1>>
    /\ queue_manager.check.moved = 5
    /\ queue_manager.check.after = queue_manager.target_queue_size
\* a moved file replaces the queued file of the same name: the queue stays
\* below the target although the whole quota was moved
C38_ShortWitness ==
    /\ queue_manager.check.replenished
    /\ queue_manager.check.before = 1
    /\ queue_manager.check.quotas = <<2, 1>>
    /\ queue_manager.check.moved = queue_manager.check.needed
    /\ queue_manager.check.after < queue_manager.target_queue_size

====
